---- MODULE Spec2Model ----
(***************************************************************************)
(* A model of the sp-obs telemetry pipeline: the span processor            *)
(* (SpinalSpanProcessor on top of the OpenTelemetry batch processor), the  *)
(* exporter (SpinalSpanExporter), the admission filter and the httpx       *)
(* stream wrappers.                                                        *)
(*                                                                         *)
(* SpinalSpanProcessor derives from opentelemetry.sdk's BatchSpanProcessor *)
(* and drives its _batch_processor (BatchProcessor) directly; the queue,   *)
(* the worker thread and force_flush/shutdown below follow that library    *)
(* class, which processor.py instantiates in __init__ and calls in on_end  *)
(* and shutdown.                                                           *)
(***************************************************************************)
EXTENDS Integers, Sequences, FiniteSets, TLC

(* ------------------------------ bounds -------------------------------- *)

\* max_queue_size of the processor under check (the default is 2048).
MaxQueueSize == 3

\* max_export_batch_size of the processor under check (the default is 512);
\* the library requires max_export_batch_size <= max_queue_size.
MaxExportBatchSize == 2

\* How many admitted spans on_end is called for in one behaviour.
MaxSpans == 4

\* How many explicit force_flush() calls the application makes.
MaxFlushCalls == 1

\* How many times the application calls exporter.export() after shutdown().
MaxDirectExports == 1

\* How many times SpinalSpanExporter.shutdown() is called on a lone exporter.
MaxShutdownCalls == 2

\* How many chunks the wrapped stream produces at most.
MaxChunks == 3

\* how many times end-of-stream is signalled on one wrapper
MaxSignals == 2

\* How many extra patterns a DefaultScrubber is given at most.
MaxExtra == 1

\* How many keys the attribute map given to scrub_attributes has at most.
MaxKeys == 2

\* How many bytes safe_decode is given at most.
MaxBytes == 3

\* SDK: the configure() and get_config() calls the application makes
MaxSdkCalls == 3

\* callbacks of one aiohttp request after on_request_start
MaxCallbacks == 4

\* requests sent through the instrumented requests Session
MaxRequests == 3

\* How many threads call get_provider at the same time.
MaxThreads == 2

\* How many calls of get_provider they make, all together.
MaxLookups == 4

\* How many lines an event stream has.
MaxLines == 4

(* ----------------------------- variables ------------------------------ *)

VARIABLES
    queue,        \* BatchProcessor._queue: a deque, index 1 is the left end
    awaken,       \* BatchProcessor._worker_awaken (threading.Event)
    bpShutdown,   \* BatchProcessor._shutdown
    expShutdown,  \* SpinalSpanExporter._shutdown
    closes,       \* number of times SpinalSpanExporter._session.close() ran
    exportLock,   \* BatchProcessor._export_lock: "free", "worker" or "caller"
    workerPc,     \* position of the worker thread
    workerStrategy, \* the BatchExportStrategy of the worker's current _export
    workerIter,   \* num_iterations of the worker's current _export
    callerPc,     \* position of the application thread in force_flush/shutdown
    callerOp,     \* what the application thread runs: "none", "flush", "shutdown"
    flushCalls,   \* explicit force_flush() calls made so far
    emitted,      \* admitted spans on_end was called for so far (span ids 1..)
    dropped,      \* spans that left the queue without being handed to export
    exports,      \* every call of exporter.export so far, in call order
    atShutdown,   \* the spans in the queue when shutdown() was called
    directCalls,  \* direct exporter.export() calls made so far
    ignored,      \* spans emit() ignored because the processor was shut down
    ignoredLate,  \* those of them on_end came for after shutdown() had returned
    fHook,        \* admission filter: the hook last called, "none" before
    fSpan,        \* admission filter: the span it was called with
    fDecision,    \* admission filter: what _should_process came to
    xCall,        \* exporter: the inputs of the last export() call
    xOut,         \* exporter: what that call returned
    sFlavor,      \* stream wrapper: "sync" (SyncStreamWrapper) or "async"
    sSource,      \* the chunks the wrapped stream produces, in order
    sFails,       \* whether the wrapped stream raises after the last of them
    sPos,         \* how many of them the wrapped stream has produced
    sChunks,      \* the wrapper's self._chunks
    sReceived,    \* the chunks the consumer of the wrapper has received
    sFinal,       \* spinal.response.binary_data of each finalize span created
    sState,       \* "open", "exhausted" once the iteration has ended normally,
                  \* "finalize_raised" / "stream_error" if it ended by an exception
    sSignals,     \* how many times _process_complete has run
    sOutcome,     \* how its last run went, "none" before
    scExtra,      \* scrubber: the extra_patterns DefaultScrubber was given
    scState,      \* scrubber: "none", "built", "failed" (ValueError), "scrubbed"
    scPatterns,   \* scrubber: self.patterns
    scInput,      \* scrubber: the attribute map scrub_attributes was given last
    scOutput,     \* scrubber: what it returned
    scTwice,      \* scrubber: what it returned when given that result again
    dBytes,       \* safe_decode: the bytes it was given last
    dText,        \* safe_decode: the string it returned, as code points
    dHow,         \* safe_decode: the codec that produced it, "none" before
    pSpan,        \* payload: the span export() was given last (a batch of one)
    pOut,         \* payload: the exception of its decoding, the POSTed attributes
    gpCache,      \* registry: the keys of _provider_cache
    gpBefore,     \* registry: the keys of _provider_cache before the last call
    gpName,       \* registry: the name get_provider was called with last
    gpOut,        \* registry: "none", "provider" (returned) or the exception
    sdkLock,      \* SpinalSDK._lock: "free" or "held"
    sdkInitialized, \* SpinalSDK._initialized
    sdkConfig,    \* SpinalSDK.config, NoConfig for None
    tpStub,       \* SpinalTracerProvider is replaced by a stand-in (a test patch)
    cfgStack,     \* the application thread's frames inside the SDK, innermost last
    cfgCalls,     \* every configure() call of the application, with its result
    tgStack,      \* tag: the contexts attached, innermost (current) last
    tgArgs,       \* tag: the arguments of the tag under way
    tgPc,         \* tag: "idle", "constructed", "entered", "exited"
    tgToken,      \* tag: self.token, the depth of tgStack it restores, 0 unset
    tgScm,        \* tag: self.span_context_manager: "unset" or "set"
    tgBefore,     \* tag: the baggage of the context before tag(...) was called
    tgResult,     \* tag: how __exit__ ended: "none", "returned", "AttributeError"
    aSpan,        \* aiohttp: trace_config_ctx.spinal_span: "none", "open", "ended"
    aFlag,        \* aiohttp: trace_config_ctx.spinal_span_ended
    aEnds,        \* aiohttp: how many times spinal_span.end() ran
    aDetaches,    \* aiohttp: how many times context.detach(spinal_token) ran
    aReader,      \* aiohttp: trace_config_ctx.response_stream_reader is set
    aBuffer,      \* aiohttp: trace_config_ctx.spinal_response_chunks
    aCalls,       \* aiohttp: callbacks delivered after on_request_start
    aLast,        \* aiohttp: the last callback and whether the span had ended
    aPhase,       \* aiohttp: how far the request itself has come
    aStarts,      \* aiohttp: spans on_request_start has started
    rqSpans,      \* requests: the spinal.requests span of each send, in order
    rqGetters,    \* requests: the spans the content getters installed on the
                  \* Response class close over, innermost first
    rqRead,       \* requests: whether the body of each response has been read
    rqLast,       \* requests: how the last wrapped_send went
    rcCache,      \* registry under threads: _provider_cache
    rcThreads,    \* registry under threads: each thread's call of get_provider
    rcMade,       \* registry under threads: provider instances constructed
    sseIn,        \* event stream: the text handle_event_stream was given
    sseOut        \* event stream: the events it assembled

procVars == <<queue, awaken, bpShutdown, expShutdown, closes, exportLock, workerPc,
              workerStrategy, workerIter, callerPc, callerOp, flushCalls, emitted,
              dropped, exports, atShutdown, directCalls, ignored, ignoredLate>>

filterVars == <<fHook, fSpan, fDecision>>

exportVars == <<xCall, xOut>>

streamVars == <<sFlavor, sSource, sFails, sPos, sChunks, sReceived, sFinal, sState,
                sSignals, sOutcome>>

scrubVars == <<scExtra, scState, scPatterns, scInput, scOutput, scTwice>>

decodeVars == <<dBytes, dText, dHow, pSpan, pOut>>

codecVars == <<scrubVars, decodeVars>>

regVars == <<gpCache, gpBefore, gpName, gpOut>>

cfgVars == <<sdkLock, sdkInitialized, sdkConfig, tpStub, cfgStack, cfgCalls>>

tagVars == <<tgStack, tgArgs, tgPc, tgToken, tgScm, tgBefore, tgResult>>

aioVars == <<aSpan, aFlag, aEnds, aDetaches, aReader, aBuffer, aCalls, aLast>>

lifeVars == <<aPhase, aStarts>>

reqVars == <<rqSpans, rqGetters, rqRead, rqLast>>

raceVars == <<rcCache, rcThreads, rcMade>>

sseVars == <<sseIn, sseOut>>

extVars == <<lifeVars, reqVars, raceVars, sseVars>>

coreSdkVars == <<regVars, cfgVars, tagVars, aioVars>>

sdkVars == <<coreSdkVars, extVars>>

pipeVars == <<procVars, filterVars, exportVars, streamVars, codecVars>>

vars == <<pipeVars, sdkVars>>

(* ------------------------- helper operators --------------------------- *)

Min(a, b) == IF a < b THEN a ELSE b

SeqToSet(s) == {s[i] : i \in 1..Len(s)}

\* appendleft on a deque that has no maxlen.
AppendLeftUnbounded(q, s) == <<s>> \o q

\* collections.deque([], max_queue_size).appendleft(span): the new element
\* enters at the left; a deque at maxlen discards from the right end.
AppendLeft(q, s) ==
    LET q2 == <<s>> \o q
    IN  IF Len(q2) > MaxQueueSize THEN SubSeq(q2, 1, MaxQueueSize) ELSE q2

\* The elements appendleft pushed out of the deque.
Evicted(q, s) == (SeqToSet(q) \cup {s}) \ SeqToSet(AppendLeft(q, s))

\* BatchProcessor._export: [self._queue.pop() for _ in range(min(batch, len))];
\* pop() takes from the right end, so the batch lists the oldest span first.
BatchSize(q) == Min(MaxExportBatchSize, Len(q))

PopBatch(q) == [i \in 1..BatchSize(q) |-> q[Len(q) - i + 1]]

AfterPop(q) == SubSeq(q, 1, Len(q) - BatchSize(q))

\* _should_export_batch that exports full batches only.
ShouldExportFullOnly(q, strategy, iter) == Len(q) >= MaxExportBatchSize

\* BatchProcessor._should_export_batch(batch_strategy, num_iterations)
ShouldExportBatch(q, strategy, iter) ==
    IF Len(q) = 0 THEN FALSE
    ELSE IF Len(q) >= MaxExportBatchSize THEN TRUE
    ELSE IF strategy = "all" THEN TRUE
    ELSE IF strategy = "one" THEN iter = 0
    ELSE FALSE

\* BatchProcessor.emit: the event is set once the queue holds a full batch.
EmitAwakens(q) == Len(q) >= MaxExportBatchSize

\* BatchProcessor.emit: "if self._shutdown: return".
EmitIgnored(shutdown) == shutdown

(* ----------------------------- exporter -------------------------------- *)

\* The status codes an HTTP POST of a batch is answered with in this model.
StatusCodes == {100, 199, 200, 201, 204, 299, 300, 301, 400, 404, 500, 503}

\* The status test with its upper end included.
StatusResultInclusive(status) ==
    IF 200 <= status /\ status <= 300 THEN "SUCCESS" ELSE "FAILURE"

\* SpinalSpanExporter.export, lines 100-105: the result for a completed POST.
StatusResult(status) ==
    IF 200 <= status /\ status < 300 THEN "SUCCESS" ELSE "FAILURE"

\* export() without the test of self._shutdown.
ExportNeverRefuses(shutdown) == FALSE

\* SpinalSpanExporter.export, lines 43-44: a shut down exporter refuses.
ExportRefuses(shutdown) == shutdown

\* SpinalSpanExporter.export, lines 46-105: the body of the try block. It
\* ends by returning a result or by an exception ("exc"). prepOk: decoding,
\* scrubbing and building the payload raised nothing; postOk: session.post
\* returned a response (it did not raise a transport error, a timeout or a
\* closed-client error); status: the status code of that response.
TryBody(prepOk, postOk, status) ==
    IF ~prepOk THEN "exc"
    ELSE IF ~postOk THEN "exc"
    ELSE StatusResult(status)

\* The POSTs the try block attempted: none when preparing the payload raised.
TryPosts(prepOk) == IF prepOk THEN 1 ELSE 0

\* SpinalSpanExporter.export, lines 107-109: "except Exception" logs and
\* returns FAILURE.
ExceptHandler(outcome) == IF outcome = "exc" THEN "FAILURE" ELSE outcome

\* SpinalSpanExporter.export as a whole: [result, posts]; the result "exc"
\* stands for an exception leaving export().
Export(shutdown, prepOk, postOk, status) ==
    IF ExportRefuses(shutdown)
    THEN [result |-> "FAILURE", posts |-> 0]
    ELSE [result |-> ExceptHandler(TryBody(prepOk, postOk, status)),
          posts  |-> TryPosts(prepOk)]

(* -------------------------- admission filter --------------------------- *)

\* EXCLUDED_URLS, processor.py lines 28-32
EXCLUDED_URLS == {"api.openai.com", "api.anthropic.com", "api.azure.com/openai"}

\* A span as the filter sees it. name and scope are the dot-separated
\* components of span.name and span.instrumentation_scope.name; hasInfo is
\* hasattr(span, "_instrumentation_info"); netloc is the network location of
\* the http.url attribute; provider is the spinal.provider attribute ("" when
\* absent); billing is the is_billing_span marker.
SpanNames == {<<"spinal", "httpx", "sync", "response">>, <<"spinal", "billing">>,
              <<"chat">>}

ScopeNames == {<<"opentelemetry", "instrumentation", "httpx">>,
               <<"opentelemetry", "instrumentation", "openai", "v1">>,
               <<"opentelemetry", "instrumentation", "redis">>,
               <<"sp_obs", "_internal", "core", "httpx", "httpx">>,
               <<"sp_obs", "billing">>}

Netlocs == {"api.openai.com", "api.deepgram.com"}

Providers == {"", "openai"}

FilterSpans ==
    [name : SpanNames, scope : ScopeNames, hasInfo : BOOLEAN, netloc : Netlocs,
     provider : Providers, billing : BOOLEAN]

\* SpinalSpanProcessor._get_span_type; "raise" is the IndexError of
\* instrumentation_name.split(".")[2] on a name of fewer than three parts.
get_span_type(span) ==
    IF ~span.hasInfo THEN "unknown"
    ELSE IF Len(span.scope) < 3 THEN "raise"
    ELSE LET library == span.scope[3]
         IN  IF library = "httpx" THEN "httpx"
             ELSE IF library \in {"anthropic", "openai", "openai_agents"}
             THEN "gen_ai"
             ELSE "unknown"

\* SpinalSpanProcessor._should_process: "accept" (True), "reject" (False) or
\* "raise" (the exception of _get_span_type leaves it).
should_process(span) ==
    LET span_type == get_span_type(span)
    IN  IF span_type = "raise" THEN "raise"
        ELSE IF span_type = "unknown" THEN "reject"
        ELSE IF span_type = "httpx" /\ span.netloc \in EXCLUDED_URLS THEN "reject"
        ELSE "accept"

\* The spans on_end is called with in the processor specification: one the
\* filter admits and one it rejects.
ProcSpans ==
    {[name |-> <<"chat">>, scope |-> <<"opentelemetry", "instrumentation", "openai", "v1">>,
      hasInfo |-> TRUE, netloc |-> "api.openai.com", provider |-> "", billing |-> FALSE],
     [name |-> <<"chat">>, scope |-> <<"opentelemetry", "instrumentation", "redis">>,
      hasInfo |-> TRUE, netloc |-> "api.openai.com", provider |-> "", billing |-> FALSE]}

(* ------------------------ the span processor --------------------------- *)

\* The values the other components' variables keep while a specification
\* does not exercise them.
NoSpan == [name |-> <<>>, scope |-> <<>>, hasInfo |-> FALSE, netloc |-> "",
           provider |-> "", billing |-> FALSE]

FilterIdle == fHook = "none" /\ fSpan = NoSpan /\ fDecision = "none"

NoCall == [shutdown |-> FALSE, prepOk |-> TRUE, postOk |-> TRUE, status |-> 200]

ExportIdle == xCall = NoCall /\ xOut = [result |-> "none", posts |-> 0]

\* SpinalSpanProcessor.__init__: the exporter is created, the batch processor
\* starts with an empty deque and its worker thread waiting.
InitProc ==
    /\ queue = <<>>
    /\ awaken = FALSE
    /\ bpShutdown = FALSE
    /\ expShutdown = FALSE
    /\ closes = 0
    /\ exportLock = "free"
    /\ workerPc = "wait"
    /\ workerStrategy = "none"
    /\ workerIter = 0
    /\ callerPc = "idle"
    /\ callerOp = "none"
    /\ flushCalls = 0
    /\ emitted = 0
    /\ dropped = {}
    /\ exports = <<>>
    /\ atShutdown = {}
    /\ directCalls = 0
    /\ ignored = {}
    /\ ignoredLate = {}

StreamIdle ==
    /\ sFlavor = "none" /\ sSource = <<>> /\ sFails = FALSE
    /\ sPos = 0 /\ sChunks = <<>>
    /\ sReceived = <<>> /\ sFinal = <<>> /\ sState = "open"
    /\ sSignals = 0 /\ sOutcome = "none"

\* a dict with no keys
EmptyMap == [k \in {} |-> ""]

\* No DefaultScrubber constructed.
ScrubIdle ==
    /\ scExtra = <<>> /\ scState = "none" /\ scPatterns = <<>>
    /\ scInput = EmptyMap /\ scOutput = EmptyMap /\ scTwice = EmptyMap

\* a span attribute that is not set
NoBody == [frame |-> "absent", text |-> "absent"]

\* safe_decode not called yet, no span decoded yet.
DecodeIdle ==
    /\ dBytes = <<>> /\ dText = <<>> /\ dHow = "none"
    /\ pSpan = [provider |-> "", contentType |-> "", contentEncoding |-> "",
                request |-> NoBody, response |-> NoBody]
    /\ pOut = [exc |-> "none", result |-> "none", posts |-> 0, payload |-> EmptyMap]

CodecIdle == ScrubIdle /\ DecodeIdle

\* _provider_cache = {} and no get_provider call yet
RegistryIdle == gpCache = {} /\ gpBefore = {} /\ gpName = "" /\ gpOut = "none"

\* SpinalSDK.config = None
NoConfig == [endpoint |-> "", api_key |-> "", made |-> 0]

\* _sdk = SpinalSDK(): not initialized, no config, the lock free
ConfigIdle ==
    /\ sdkLock = "free" /\ sdkInitialized = FALSE /\ sdkConfig = NoConfig
    /\ tpStub = FALSE /\ cfgStack = <<>> /\ cfgCalls = <<>>

NoTagArgs ==
    [aggregation_id |-> "", org_id |-> "", user_id |-> "", workflow_id |-> "",
     kwargs |-> {}]

\* No tag created; the current context is the root context, without baggage
\* and without a span.
TagIdle ==
    /\ tgStack = <<[baggage |-> EmptyMap, span |-> "none"]>> /\ tgArgs = NoTagArgs
    /\ tgPc = "idle" /\ tgToken = 0 /\ tgScm = "unset" /\ tgBefore = EmptyMap
    /\ tgResult = "none"

\* No aiohttp request started.
\* trace_config_ctx before on_request_start: no spinal_span attribute
NoAioSpan ==
    [state |-> "absent", status |-> "UNSET", attrs |-> {}, http_status_code |-> 0]

NoCallback == [callback |-> "none", ended |-> FALSE, exc |-> "none"]

AioIdle ==
    /\ aSpan = NoAioSpan /\ aFlag = FALSE /\ aEnds = 0 /\ aDetaches = 0
    /\ aReader = FALSE /\ aBuffer = <<>> /\ aCalls = 0
    /\ aLast = NoCallback

\* no request sent through the instrumented Session
NoSend == [request |-> 0, original |-> "none", outcome |-> "none"]

RequestsIdle ==
    /\ rqSpans = <<>> /\ rqGetters = <<>> /\ rqRead = <<>> /\ rqLast = NoSend

\* no event stream parsed yet
NoParse == [parsed |-> FALSE, events |-> <<>>, response |-> <<>>]

\* no provider object
NoInstance == [type |-> "none", id |-> 0]

\* a thread that has not called get_provider yet
IdleThread ==
    [pc |-> "idle", name |-> "", local |-> NoInstance, result |-> NoInstance,
     late |-> FALSE, calls |-> 0]

Threads == 1..MaxThreads

ExtIdle ==
    /\ aPhase = "idle" /\ aStarts = 0
    /\ RequestsIdle
    /\ rcCache = <<>> /\ rcThreads = [t \in Threads |-> IdleThread] /\ rcMade = 0
    /\ sseIn = <<>> /\ sseOut = NoParse

SdkIdle == RegistryIdle /\ ConfigIdle /\ TagIdle /\ AioIdle /\ ExtIdle

Init ==
    InitProc /\ FilterIdle /\ ExportIdle /\ StreamIdle /\ CodecIdle /\ SdkIdle

\* The index of the export call that has not returned yet (the export lock
\* allows one at a time), 0 when there is none.
PendingIndex ==
    IF \E i \in 1..Len(exports) : exports[i].result = "PENDING"
    THEN CHOOSE i \in 1..Len(exports) : exports[i].result = "PENDING"
    ELSE 0

\* BatchProcessor._export, one iteration up to the call of exporter.export:
\* the batch is popped and handed to the exporter, which refuses at once when
\* it is shut down; otherwise the call is under way ("PENDING").
BeginEntry ==
    [spans |-> PopBatch(queue),
     refused |-> ExportRefuses(expShutdown),
     posts |-> 0,
     result |-> IF ExportRefuses(expShutdown) THEN "FAILURE" ELSE "PENDING"]

\* _export putting a failed batch back at the right end of the deque.
AfterExportRetry(q, batch, result) ==
    IF result = "FAILURE"
    THEN q \o [i \in 1..Len(batch) |-> batch[Len(batch) - i + 1]]
    ELSE q

\* BatchProcessor._export ignores what exporter.export returned: the popped
\* batch is gone whatever the result.
AfterExport(q, batch, result) == q

\* BatchProcessor.emit(span) for the next span (its id is emitted + 1).
Emit ==
    /\ emitted' = emitted + 1
    /\ IF EmitIgnored(bpShutdown)
       THEN /\ ignored' = ignored \cup {emitted + 1}
            /\ ignoredLate' = IF callerPc = "done"
                              THEN ignoredLate \cup {emitted + 1}
                              ELSE ignoredLate
            /\ UNCHANGED <<queue, dropped, awaken>>
       ELSE /\ queue' = AppendLeft(queue, emitted + 1)
            /\ dropped' = dropped \cup Evicted(queue, emitted + 1)
            /\ awaken' = (awaken \/ EmitAwakens(queue'))
            /\ UNCHANGED <<ignored, ignoredLate>>
    /\ UNCHANGED <<bpShutdown, expShutdown, closes, exportLock, workerPc,
                   workerStrategy, workerIter, callerPc, callerOp, flushCalls,
                   exports, atShutdown, directCalls>>

\* SpinalSpanProcessor.on_end: spans _should_process does not accept are left
\* alone, the others go to BatchProcessor.emit.
OnEnd ==
    \E span \in ProcSpans :
        IF should_process(span) # "accept"
        THEN UNCHANGED vars
        ELSE /\ emitted < MaxSpans
             /\ Emit
             /\ UNCHANGED <<filterVars, exportVars, streamVars, codecVars, sdkVars>>

\* BatchProcessor.worker: _worker_awaken.wait() returns because the event is
\* set; "if self._shutdown: break" leads to the final _export(EXPORT_ALL).
WorkerWake ==
    /\ workerPc = "wait"
    /\ awaken
    /\ workerPc' = "lock"
    /\ workerStrategy' = IF bpShutdown THEN "all" ELSE "threshold"
    /\ UNCHANGED <<queue, awaken, bpShutdown, expShutdown, closes, exportLock,
                   workerIter, callerPc, callerOp, flushCalls, emitted, dropped,
                   exports, atShutdown, directCalls, ignored, ignoredLate,
                   filterVars, exportVars, streamVars, codecVars, sdkVars>>

\* BatchProcessor.worker: the wait times out after schedule_delay_millis.
WorkerTimeout ==
    /\ workerPc = "wait"
    /\ ~awaken
    /\ workerPc' = "lock"
    /\ workerStrategy' = IF bpShutdown THEN "all" ELSE "one"
    /\ UNCHANGED <<queue, awaken, bpShutdown, expShutdown, closes, exportLock,
                   workerIter, callerPc, callerOp, flushCalls, emitted, dropped,
                   exports, atShutdown, directCalls, ignored, ignoredLate,
                   filterVars, exportVars, streamVars, codecVars, sdkVars>>

\* An _export that does not wait for the lock.
ExportLockIgnored(lock) == TRUE

\* with self._export_lock: the block is entered only while no thread holds
\* the lock
ExportLockFree(lock) == lock = "free"

\* BatchProcessor._export: the worker takes _export_lock (pc "lock") or holds
\* it already (pc "loop"), and tests the while condition once: either a batch
\* is popped and handed to the exporter, or the loop ends and the lock is
\* released.
WorkerLoop ==
    /\ \/ workerPc = "lock" /\ ExportLockFree(exportLock)
       \/ workerPc = "loop"
    /\ LET iter == IF workerPc = "lock" THEN 0 ELSE workerIter
       IN  IF ShouldExportBatch(queue, workerStrategy, iter)
           THEN /\ exports' = Append(exports, BeginEntry)
                /\ queue' = AfterPop(queue)
                /\ workerIter' = 1
                /\ workerPc' = IF ExportRefuses(expShutdown) THEN "loop" ELSE "export"
                /\ exportLock' = "worker"
           ELSE /\ exportLock' = "free"
                /\ workerPc' = IF workerStrategy = "all" THEN "done" ELSE "clear"
                /\ workerIter' = 0
                /\ UNCHANGED <<exports, queue>>
    /\ UNCHANGED <<awaken, bpShutdown, expShutdown, closes, workerStrategy,
                   callerPc, callerOp, flushCalls, emitted, dropped, atShutdown,
                   directCalls, ignored, ignoredLate,
                   filterVars, exportVars, streamVars, codecVars, sdkVars>>

\* exporter.export returns to the worker.
WorkerExportEnd ==
    /\ workerPc = "export"
    /\ \E prepOk \in BOOLEAN, postOk \in BOOLEAN, status \in StatusCodes :
          LET r == Export(FALSE, prepOk, postOk, status)
              i == PendingIndex
          IN  /\ exports' = [exports EXCEPT ![i].result = r.result,
                                            ![i].posts = r.posts]
              /\ queue' = AfterExport(queue, exports[i].spans, r.result)
    /\ workerPc' = "loop"
    /\ UNCHANGED <<awaken, bpShutdown, expShutdown, closes, exportLock,
                   workerStrategy, workerIter, callerPc, callerOp, flushCalls,
                   emitted, dropped, atShutdown, directCalls, ignored, ignoredLate,
                   filterVars, exportVars, streamVars, codecVars, sdkVars>>

\* BatchProcessor.worker: self._worker_awaken.clear(), then the test of
\* "while not self._shutdown".
WorkerClear ==
    /\ workerPc = "clear"
    /\ awaken' = FALSE
    /\ IF bpShutdown
       THEN workerPc' = "lock" /\ workerStrategy' = "all"
       ELSE workerPc' = "wait" /\ workerStrategy' = "none"
    /\ UNCHANGED <<queue, bpShutdown, expShutdown, closes, exportLock, workerIter,
                   callerPc, callerOp, flushCalls, emitted, dropped, exports,
                   atShutdown, directCalls, ignored, ignoredLate,
                   filterVars, exportVars, streamVars, codecVars, sdkVars>>

\* BatchSpanProcessor.force_flush -> BatchProcessor.force_flush, called by the
\* application: "if self._shutdown: return False", else _export(EXPORT_ALL).
ForceFlushCall ==
    /\ callerPc \in {"idle", "done"}
    /\ flushCalls < MaxFlushCalls
    /\ flushCalls' = flushCalls + 1
    /\ IF bpShutdown
       THEN UNCHANGED <<callerPc, callerOp>>
       ELSE callerPc' = "ff_lock" /\ callerOp' = "flush"
    /\ UNCHANGED <<queue, awaken, bpShutdown, expShutdown, closes, exportLock,
                   workerPc, workerStrategy, workerIter, emitted, dropped, exports,
                   atShutdown, directCalls, ignored, ignoredLate,
                   filterVars, exportVars, streamVars, codecVars, sdkVars>>

\* SpinalSpanProcessor.shutdown is called; it starts with self.force_flush().
ShutdownCall ==
    /\ callerPc = "idle"
    /\ callerOp' = "shutdown"
    /\ atShutdown' = SeqToSet(queue)
    /\ callerPc' = IF bpShutdown THEN "exp_shutdown" ELSE "ff_lock"
    /\ UNCHANGED <<queue, awaken, bpShutdown, expShutdown, closes, exportLock,
                   workerPc, workerStrategy, workerIter, flushCalls, emitted,
                   dropped, exports, directCalls, ignored, ignoredLate,
                   filterVars, exportVars, streamVars, codecVars, sdkVars>>

\* force_flush -> _export(EXPORT_ALL): the caller takes _export_lock (pc
\* "ff_lock") or holds it already (pc "ff_loop"), and tests the while
\* condition once; when the loop ends force_flush returns, to the application
\* or into SpinalSpanProcessor.shutdown.
CallerLoop ==
    /\ \/ callerPc = "ff_lock" /\ ExportLockFree(exportLock)
       \/ callerPc = "ff_loop"
    /\ IF ShouldExportBatch(queue, "all", 0)
       THEN /\ exports' = Append(exports, BeginEntry)
            /\ queue' = AfterPop(queue)
            /\ callerPc' = IF ExportRefuses(expShutdown) THEN "ff_loop" ELSE "ff_export"
            /\ exportLock' = "caller"
       ELSE /\ exportLock' = "free"
            /\ callerPc' = IF callerOp = "shutdown" THEN "exp_shutdown" ELSE "idle"
            /\ UNCHANGED <<exports, queue>>
    /\ UNCHANGED <<awaken, bpShutdown, expShutdown, closes, workerPc,
                   workerStrategy, workerIter, callerOp, flushCalls, emitted,
                   dropped, atShutdown, directCalls, ignored, ignoredLate,
                   filterVars, exportVars, streamVars, codecVars, sdkVars>>

\* exporter.export returns to force_flush.
CallerExportEnd ==
    /\ callerPc = "ff_export"
    /\ \E prepOk \in BOOLEAN, postOk \in BOOLEAN, status \in StatusCodes :
          LET r == Export(FALSE, prepOk, postOk, status)
              i == PendingIndex
          IN  /\ exports' = [exports EXCEPT ![i].result = r.result,
                                            ![i].posts = r.posts]
              /\ queue' = AfterExport(queue, exports[i].spans, r.result)
    /\ callerPc' = "ff_loop"
    /\ UNCHANGED <<awaken, bpShutdown, expShutdown, closes, exportLock, workerPc,
                   workerStrategy, workerIter, callerOp, flushCalls, emitted,
                   dropped, atShutdown, directCalls, ignored, ignoredLate,
                   filterVars, exportVars, streamVars, codecVars, sdkVars>>

\* SpinalSpanExporter.shutdown, called from SpinalSpanProcessor.shutdown:
\* force_flush() of the exporter does nothing, the flag is set, the session
\* is closed.
ExporterShutdown ==
    /\ callerPc = "exp_shutdown"
    /\ expShutdown' = TRUE
    /\ closes' = closes + 1
    /\ callerPc' = "bp_shutdown"
    /\ UNCHANGED <<queue, awaken, bpShutdown, exportLock, workerPc, workerStrategy,
                   workerIter, callerOp, flushCalls, emitted, dropped, exports,
                   atShutdown, directCalls, ignored, ignoredLate,
                   filterVars, exportVars, streamVars, codecVars, sdkVars>>

\* super().shutdown() -> BatchProcessor.shutdown: the flag is set and the
\* worker is woken; then the worker thread is joined.
BatchShutdown ==
    /\ callerPc = "bp_shutdown"
    /\ IF bpShutdown
       THEN callerPc' = "done" /\ UNCHANGED <<bpShutdown, awaken>>
       ELSE callerPc' = "join" /\ bpShutdown' = TRUE /\ awaken' = TRUE
    /\ UNCHANGED <<queue, expShutdown, closes, exportLock, workerPc,
                   workerStrategy, workerIter, callerOp, flushCalls, emitted,
                   dropped, exports, atShutdown, directCalls, ignored, ignoredLate,
                   filterVars, exportVars, streamVars, codecVars, sdkVars>>

\* BatchProcessor.shutdown: the worker thread has ended, join() returns and
\* self._exporter.shutdown() runs (SpinalSpanExporter.shutdown once more).
JoinWorker ==
    /\ callerPc = "join"
    /\ workerPc = "done"
    /\ expShutdown' = TRUE
    /\ closes' = closes + 1
    /\ callerPc' = "done"
    /\ UNCHANGED <<queue, awaken, bpShutdown, exportLock, workerPc, workerStrategy,
                   workerIter, callerOp, flushCalls, emitted, dropped, exports,
                   atShutdown, directCalls, ignored, ignoredLate,
                   filterVars, exportVars, streamVars, codecVars, sdkVars>>

\* After shutdown() has returned the application calls
\* processor.exporter.export() itself, with a batch of spans that never were
\* in the queue.
DirectExport ==
    /\ callerPc = "done"
    /\ directCalls < MaxDirectExports
    /\ directCalls' = directCalls + 1
    /\ \E prepOk \in BOOLEAN, postOk \in BOOLEAN, status \in StatusCodes :
          LET r == Export(expShutdown, prepOk, postOk, status)
          IN  exports' = Append(exports,
                  [spans |-> <<>>,
                   refused |-> ExportRefuses(expShutdown),
                   posts |-> r.posts, result |-> r.result])
    /\ UNCHANGED <<queue, awaken, bpShutdown, expShutdown, closes, exportLock,
                   workerPc, workerStrategy, workerIter, callerPc, callerOp,
                   flushCalls, emitted, dropped, atShutdown, ignored, ignoredLate,
                   filterVars, exportVars, streamVars, codecVars, sdkVars>>

Next ==
    \/ OnEnd
    \/ WorkerWake
    \/ WorkerTimeout
    \/ WorkerLoop
    \/ WorkerExportEnd
    \/ WorkerClear
    \/ ForceFlushCall
    \/ ShutdownCall
    \/ CallerLoop
    \/ CallerExportEnd
    \/ ExporterShutdown
    \/ BatchShutdown
    \/ JoinWorker
    \/ DirectExport

Spec == Init /\ [][Next]_vars

\* The scheduling the threads have: the worker thread and the thread inside
\* force_flush/shutdown keep running, exporter.export returns (the session
\* has a timeout), and the worker's timed wait runs out.
Fairness ==
    /\ WF_vars(WorkerWake)
    /\ WF_vars(WorkerTimeout)
    /\ WF_vars(WorkerLoop)
    /\ WF_vars(WorkerExportEnd)
    /\ WF_vars(WorkerClear)
    /\ WF_vars(CallerLoop)
    /\ WF_vars(CallerExportEnd)
    /\ WF_vars(ExporterShutdown)
    /\ WF_vars(BatchShutdown)
    /\ WF_vars(JoinWorker)

FairSpec == Init /\ [][Next]_vars /\ Fairness

(* ------------------------------ claims --------------------------------- *)

Spans == 1..MaxSpans

InQueue(s) == s \in SeqToSet(queue)

\* s was in a batch given to exporter.export
Handed(s) == \E i \in 1..Len(exports) : s \in SeqToSet(exports[i].spans)

\* s was in a batch given to exporter.export while the exporter accepted batches
HandedAccepted(s) ==
    \E i \in 1..Len(exports) :
        s \in SeqToSet(exports[i].spans) /\ ~exports[i].refused

\* the spans emit() has put into the queue so far
Enqueued == emitted - Cardinality(ignored)

RECURSIVE SumPosts(_)
SumPosts(es) == IF es = <<>> THEN 0 ELSE Head(es).posts + SumPosts(Tail(es))

\* C1: the queue never holds more than max_queue_size spans, and as long as
\* nothing has been exported, n enqueued spans leave min(n, max_queue_size)
\* spans resident and n - max_queue_size (when positive) dropped.
C1_QueueBound ==
    /\ Len(queue) <= MaxQueueSize
    /\ exports = <<>> =>
          /\ Len(queue) = Min(Enqueued, MaxQueueSize)
          /\ Cardinality(dropped) = Enqueued - Len(queue)

C1_Witness ==
    /\ exports = <<>>
    /\ Enqueued = MaxQueueSize + 1
    /\ Len(queue) = MaxQueueSize
    /\ Cardinality(dropped) = 1

\* C2: on overflow the incoming span is discarded and the queued spans stay:
\* an on_end for an admitted span that finds the queue full leaves the queue
\* as it was.
C2_DropNewest ==
    [][(emitted' = emitted + 1 /\ Len(queue) = MaxQueueSize) => queue' = queue]_vars

\* C3: a queue that has reached max_export_batch_size is exported without
\* waiting for the timer: the worker is never left in its timed wait, with the
\* wake-up event unset, while the queue holds a full batch.
C3_SizeTriggered ==
    (workerPc = "wait" /\ Len(queue) >= MaxExportBatchSize) => awaken

\* Every span on_end was called for is in exactly one place: in the queue,
\* dropped by the queue, ignored by emit(), or handed to the exporter.
Accounted ==
    \A s \in 1..emitted :
        /\ InQueue(s) \/ Handed(s) \/ s \in dropped \/ s \in ignored
        /\ ~(InQueue(s) /\ s \in dropped)
        /\ ~(Handed(s) /\ s \in dropped)
        /\ s \in ignored => ~(InQueue(s) \/ Handed(s) \/ s \in dropped)

\* C4: the spans in the queue do not wait for a full batch: again and again
\* the queue is drained, and a span that has left the queue was handed to the
\* exporter, unless the queue dropped it. So every admitted span that was
\* enqueued and not dropped is eventually passed to the exporter.
C4_TimerFlush == []Accounted /\ []<>(queue = <<>>)

\* the worker, woken by the timer, is exporting a batch smaller than
\* max_export_batch_size
C4_Witness ==
    /\ workerPc = "export"
    /\ workerStrategy = "one"
    /\ PendingIndex > 0
    /\ Len(exports[PendingIndex].spans) < MaxExportBatchSize
    /\ ~bpShutdown

\* C5: once the exporter is shut down by shutdown(), every span that was in
\* the queue when shutdown() was called has been handed to export while the
\* exporter still accepted batches.
C5_FinalFlush ==
    expShutdown => \A s \in atShutdown : HandedAccepted(s)

\* C6: after shutdown() has returned, on_end leaves the queue alone, no POST
\* is attempted any more, and every export call returns FAILURE.
C6_AfterShutdown ==
    [][callerPc = "done" =>
          /\ queue' = queue
          /\ SumPosts(exports') = SumPosts(exports)
          /\ Len(exports') > Len(exports) =>
                exports'[Len(exports')].result = "FAILURE"]_vars

C6_Witness ==
    /\ callerPc = "done"
    /\ ignoredLate # {}
    /\ Len(exports) > 0
    /\ exports[Len(exports)].spans = <<>>
    /\ exports[Len(exports)].result = "FAILURE"

\* C7: a batch is handed to the exporter once: no span is in two export calls
\* or back in the queue after one, an export call makes at most one POST, and
\* a failed export does not stop the processor from accepting spans (only
\* shutdown() does).
C7_NoRetryState ==
    /\ \A i, j \in 1..Len(exports) :
          i # j => SeqToSet(exports[i].spans) \cap SeqToSet(exports[j].spans) = {}
    /\ \A i \in 1..Len(exports) : exports[i].posts <= 1
    /\ \A s \in Spans : InQueue(s) => ~Handed(s)
    /\ bpShutdown => callerOp = "shutdown"

C7_NoRetry ==
    /\ []C7_NoRetryState
    /\ [][(emitted' = emitted + 1 /\ ~bpShutdown) =>
             (queue' # <<>> /\ Head(queue') = emitted')]_vars

\* a failed export (the POST was made) is followed by a successful export of
\* later spans
C7_Witness ==
    \E i, j \in 1..Len(exports) :
        /\ i < j
        /\ exports[i].result = "FAILURE" /\ exports[i].posts = 1
        /\ exports[j].result = "SUCCESS"

\* the export calls that have not returned
PendingExports == {i \in 1..Len(exports) : exports[i].result = "PENDING"}

\* C25: whatever the interleaving of on_end, the worker's size-triggered and
\* timer-triggered exports, force_flush and shutdown, at most one call of
\* exporter.export is under way at any time.
C25_OneFlush ==
    /\ Cardinality(PendingExports) <= 1
    /\ ~(workerPc = "export" /\ callerPc = "ff_export")

\* force_flush waits for the lock while an export of the worker is under way
C25_Witness ==
    /\ workerPc = "export" /\ callerPc = "ff_lock" /\ queue # <<>>
    /\ Cardinality(PendingExports) = 1

(* ------------------------- the exporter alone -------------------------- *)

\* SpinalSpanExporter.export called with one batch: the call is recorded with
\* the state of the exporter's flag, and so is what it returned.
ExportCall ==
    /\ \E prepOk \in BOOLEAN, postOk \in BOOLEAN, status \in StatusCodes :
          /\ xCall' = [shutdown |-> expShutdown, prepOk |-> prepOk,
                       postOk |-> postOk, status |-> status]
          /\ xOut' = Export(expShutdown, prepOk, postOk, status)
    /\ UNCHANGED <<procVars, filterVars, streamVars, codecVars, sdkVars>>

\* SpinalSpanExporter.shutdown called on the exporter.
ExporterShutdownCall ==
    /\ closes < MaxShutdownCalls
    /\ expShutdown' = TRUE
    /\ closes' = closes + 1
    /\ UNCHANGED <<queue, awaken, bpShutdown, exportLock, workerPc, workerStrategy,
                   workerIter, callerPc, callerOp, flushCalls, emitted, dropped,
                   exports, atShutdown, directCalls, ignored, ignoredLate,
                   filterVars, exportVars, streamVars, codecVars, sdkVars>>

NextExport == ExportCall \/ ExporterShutdownCall

SpecExport == Init /\ [][NextExport]_vars

\* C8: export returns SUCCESS exactly when the exporter was not shut down,
\* the payload was built, the POST returned a response and its status code is
\* in 200..299; in every other case it returns FAILURE, and no exception
\* leaves it.
C8_ExportResult ==
    xOut.result # "none" =>
        /\ xOut.result \in {"SUCCESS", "FAILURE"}
        /\ xOut.result = "SUCCESS" <=>
              /\ ~xCall.shutdown
              /\ xCall.prepOk
              /\ xCall.postOk
              /\ xCall.status \in 200..299
        /\ xOut.result = "SUCCESS" => xOut.posts = 1

\* the POST raised and export returned FAILURE
C8_Witness ==
    /\ xOut.result = "FAILURE"
    /\ ~xCall.shutdown /\ xCall.prepOk /\ ~xCall.postOk
    /\ xOut.posts = 1

(* ----------------------- the admission filter alone -------------------- *)

\* SpinalSpanProcessor.on_start: nothing is done for a span _should_process
\* does not accept; for the others the spinal.* baggage entries are copied to
\* the span (no state of the processor changes).
FilterOnStart ==
    /\ \E span \in FilterSpans :
          /\ fHook' = "on_start"
          /\ fSpan' = span
          /\ fDecision' = should_process(span)
    /\ UNCHANGED <<procVars, exportVars, streamVars, codecVars, sdkVars>>

\* SpinalSpanProcessor.on_end: a span _should_process accepts is emitted.
FilterOnEnd ==
    /\ \E span \in FilterSpans :
          /\ fHook' = "on_end"
          /\ fSpan' = span
          /\ fDecision' = should_process(span)
          /\ IF should_process(span) = "accept"
             THEN emitted < MaxSpans /\ Emit
             ELSE UNCHANGED procVars
    /\ UNCHANGED <<exportVars, streamVars, codecVars, sdkVars>>

NextFilter == FilterOnStart \/ FilterOnEnd

SpecFilter == Init /\ [][NextFilter]_vars

\* The span's name carries the reserved namespace prefix "spinal".
NamePrefixed(span) == span.name # <<>> /\ span.name[1] = "spinal"

\* C9: at on_start and at on_end a span is accepted if and only if its name
\* carries the reserved prefix and it has a non-empty provider identifier or
\* the billing marker.
C9_Admission ==
    fHook # "none" =>
        (fDecision = "accept" <=>
            (NamePrefixed(fSpan) /\ (fSpan.provider # "" \/ fSpan.billing)))

\* C28: on_start and on_end return normally for every span: the admission
\* decision is an accept or a reject, never an exception, whatever the scope
\* name and the attributes of the span.
C28_AdmissionTotal == fHook # "none" => fDecision \in {"accept", "reject"}

(* ------------------------- the stream wrappers ------------------------- *)

\* The byte chunks of the model: empty, one byte, two bytes.
Chunks == {<<>>, <<0>>, <<255>>, <<0, 255>>}

ChunkSeqs == UNION {[1..n -> Chunks] : n \in 0..MaxChunks}

InitStream ==
    /\ sFlavor \in {"sync", "async"}
    /\ sSource \in ChunkSeqs
    /\ sFails \in BOOLEAN
    /\ sPos = 0
    /\ sChunks = <<>>
    /\ sReceived = <<>>
    /\ sFinal = <<>>
    /\ sState = "open"
    /\ sSignals = 0
    /\ sOutcome = "none"

\* self._chunks keeping only the chunk just read.
BufferedLastOnly(chunks, chunk) == <<chunk>>

\* self._chunks.append(chunk)
Buffered(chunks, chunk) == Append(chunks, chunk)

\* b"".join(self._chunks)
RECURSIVE Join(_)
Join(chunks) == IF chunks = <<>> THEN <<>> ELSE Head(chunks) \o Join(Tail(chunks))

\* How far _process_complete gets: it raises before the finalize span is
\* started, or inside the span before the response buffer is set, or not at all.
FinalizeOutcomes == {"no_span", "no_buffer", "complete"}

\* _process_complete: nothing for an empty self._chunks; otherwise a finalize
\* span with the joined chunks as spinal.response.binary_data. An exception
\* is logged and swallowed: the span is then missing, or ended without the
\* response buffer.
ProcessComplete(finals, chunks, outcome) ==
    IF chunks = <<>> THEN finals
    ELSE IF outcome = "no_span" THEN finals
    ELSE IF outcome = "no_buffer"
         THEN Append(finals, [hasResponse |-> FALSE, data |-> <<>>])
    ELSE Append(finals, [hasResponse |-> TRUE, data |-> Join(chunks)])

\* One pull of the consumer that the wrapped stream answers with a chunk:
\* the chunk is buffered and yielded.
Pull(flavor) ==
    /\ sFlavor = flavor
    /\ sState = "open"
    /\ sPos < Len(sSource)
    /\ sPos' = sPos + 1
    /\ sChunks' = Buffered(sChunks, sSource[sPos + 1])
    /\ sReceived' = Append(sReceived, sSource[sPos + 1])
    /\ UNCHANGED <<sFlavor, sSource, sFails, sFinal, sState, sSignals, sOutcome, procVars,
                   filterVars, exportVars, codecVars, sdkVars>>

\* The try block of _process_complete: "exc" when something in it raises.
FinalizeTry(outcome) == IF outcome = "complete" THEN "ok" ELSE "exc"

\* An except clause that lets the exception through.
FinalizeExceptReraise(r) == IF r = "exc" THEN "raised" ELSE "returned"

\* except Exception as e: logger.error(...), then return
FinalizeExcept(r) == "returned"

\* How a call of _process_complete ends for its caller.
ProcessCompleteEnds(chunks, outcome) ==
    IF chunks = <<>> THEN "returned" ELSE FinalizeExcept(FinalizeTry(outcome))

\* What a run of _process_complete did: "skipped" for an empty self._chunks.
RunOutcome(chunks, outcome) == IF chunks = <<>> THEN "skipped" ELSE outcome

\* The pull that finds the wrapped stream exhausted: _process_complete runs
\* and the iteration ends.
Exhausted(flavor) ==
    /\ sFlavor = flavor
    /\ sState = "open"
    /\ sPos = Len(sSource) /\ ~sFails
    /\ \E outcome \in FinalizeOutcomes :
          /\ sFinal' = ProcessComplete(sFinal, sChunks, outcome)
          /\ sOutcome' = RunOutcome(sChunks, outcome)
          /\ sState' = IF ProcessCompleteEnds(sChunks, outcome) = "raised"
                       THEN "finalize_raised" ELSE "exhausted"
    /\ sSignals' = sSignals + 1
    /\ UNCHANGED <<sFlavor, sSource, sFails, sPos, sChunks, sReceived, procVars,
                   filterVars, exportVars, codecVars, sdkVars>>

\* An iteration that hides the exception of the wrapped stream.
IterationEndsQuietly(raised) == "exhausted"

\* for chunk in self._stream: ... has no handler around it: an exception of
\* the wrapped stream leaves the generator as it is, before
\* _process_complete.
IterationEnds(raised) == IF raised THEN "stream_error" ELSE "exhausted"

\* The pull that the wrapped stream answers with an exception.
StreamRaises ==
    /\ sState = "open"
    /\ sPos = Len(sSource) /\ sFails
    /\ sState' = IterationEnds(TRUE)
    /\ UNCHANGED <<sFlavor, sSource, sFails, sPos, sChunks, sReceived, sFinal,
                   sSignals, sOutcome, procVars, filterVars, exportVars,
                   codecVars, sdkVars>>

\* _process_complete called once more on a wrapper whose stream has ended:
\* self._chunks still holds the chunks, nothing records that the span was made.
CompleteAgain ==
    /\ sState = "exhausted"
    /\ sSignals < MaxSignals
    /\ \E outcome \in FinalizeOutcomes :
          /\ sFinal' = ProcessComplete(sFinal, sChunks, outcome)
          /\ sOutcome' = RunOutcome(sChunks, outcome)
          /\ sState' = IF ProcessCompleteEnds(sChunks, outcome) = "raised"
                       THEN "finalize_raised" ELSE "exhausted"
    /\ sSignals' = sSignals + 1
    /\ UNCHANGED <<sFlavor, sSource, sFails, sPos, sChunks, sReceived, procVars,
                   filterVars, exportVars, codecVars, sdkVars>>

\* The wrapper iterated again after it was exhausted: the wrapped stream
\* either refuses (its exception reaches the consumer before
\* _process_complete) or yields nothing, and then _process_complete runs again.
IterateAgain ==
    /\ sState = "exhausted"
    /\ sSignals < MaxSignals
    /\ \E refuses \in BOOLEAN, outcome \in FinalizeOutcomes :
          IF refuses
          THEN /\ sState' = "stream_error"
               /\ UNCHANGED <<sFinal, sOutcome, sSignals>>
          ELSE /\ sFinal' = ProcessComplete(sFinal, sChunks, outcome)
               /\ sOutcome' = RunOutcome(sChunks, outcome)
               /\ sState' = IF ProcessCompleteEnds(sChunks, outcome) = "raised"
                            THEN "finalize_raised" ELSE "exhausted"
               /\ sSignals' = sSignals + 1
    /\ UNCHANGED <<sFlavor, sSource, sFails, sPos, sChunks, sReceived, procVars,
                   filterVars, exportVars, codecVars, sdkVars>>

\* SyncStreamWrapper.__iter__
SyncPull == Pull("sync")

SyncExhausted == Exhausted("sync")

\* AsyncStreamWrapper._aiter_wrapper
AsyncPull == Pull("async")

AsyncExhausted == Exhausted("async")

NextStream ==
    \/ SyncPull \/ SyncExhausted \/ AsyncPull \/ AsyncExhausted
    \/ CompleteAgain \/ IterateAgain \/ StreamRaises

\* A wrapper around a stream, with the processor and the exporter untouched.
InitWrapper ==
    InitProc /\ FilterIdle /\ ExportIdle /\ InitStream /\ CodecIdle /\ SdkIdle

SpecStream == InitWrapper /\ [][NextStream]_vars

\* The concatenation of a sequence of chunks, byte for byte.
RECURSIVE ConcatAll(_)
ConcatAll(cs) ==
    IF cs = <<>> THEN <<>>
    ELSE ConcatAll(SubSeq(cs, 1, Len(cs) - 1)) \o cs[Len(cs)]

\* C10: the consumer receives exactly the chunks the wrapped stream produced,
\* in order, and the response buffer of the finalize span of a fully consumed
\* stream, when the span has one, is the concatenation of those chunks, byte
\* for byte; a finalize span is made only after the stream is exhausted.
C10_ChunkFidelity ==
    /\ sReceived = SubSeq(sSource, 1, sPos)
    /\ sState # "open" => sReceived = sSource
    /\ \A i \in 1..Len(sFinal) :
          /\ sState # "open"
          /\ sFinal[i].hasResponse => sFinal[i].data = ConcatAll(sReceived)

\* an async stream of several chunks, one of them empty, fully consumed
C10_Witness ==
    /\ sFlavor = "async"
    /\ sState = "exhausted"
    /\ Len(sSource) = 3
    /\ \E i \in 1..3 : sSource[i] = <<>>
    /\ Len(sFinal) = 1
    /\ sFinal[1].hasResponse
    /\ Len(sFinal[1].data) >= 3

\* C11: signalling end-of-stream again on the same wrapper is a no-op: there
\* is never more than one finalize span for a wrapper.
C11_SingleFinalize == Len(sFinal) <= 1

\* C12: an exception raised while the finalize span is built never reaches
\* the consumer: the pull that found the stream exhausted ends the iteration
\* normally, with the consumer holding every chunk of the stream.
C12_FinalizeSwallowed ==
    /\ sState # "finalize_raised"
    /\ (sSignals = 1 /\ sOutcome \in {"no_span", "no_buffer"}) =>
          /\ sState \in {"exhausted", "stream_error"}
          /\ sReceived = sSource

\* a stream with chunks, fully consumed, whose finalize span could not be made
C12_Witness ==
    /\ sSignals = 1
    /\ sOutcome = "no_span"
    /\ sState = "exhausted"
    /\ Len(sSource) >= 2
    /\ sReceived = sSource
    /\ sFinal = <<>>

\* C36: a stream exhausted with no chunk observed makes no finalize span,
\* and a finalize span is made only for a stream that delivered data.
C36_NoEmptyFinalize ==
    /\ (sState = "exhausted" /\ sReceived = <<>>) => sFinal = <<>>
    /\ sFinal # <<>> => ConcatAll(sReceived) # <<>>

\* C37: when the wrapped stream raises during the iteration, the consumer
\* has received every chunk produced before, in order, and then gets the
\* exception of the stream.
C37_StreamErrorPropagated ==
    (sFails /\ sState # "open") =>
        /\ sState = "stream_error"
        /\ sReceived = sSource

\* an async stream that raised after two chunks
C37_Witness ==
    /\ sFlavor = "async" /\ sFails /\ sState = "stream_error"
    /\ Len(sSource) = 2 /\ sReceived = sSource /\ sChunks = sSource

(* ------------------------------ scrubbing ------------------------------ *)

UpperCase == "ABCDEFGHIJKLMNOPQRSTUVWXYZ"

LowerCase == "abcdefghijklmnopqrstuvwxyz"

\* the characters \w matches (ASCII)
WordChars == LowerCase \o UpperCase \o "0123456789_"

Char(s, i) == SubSeq(s, i, i)

UpperLetters == {Char(UpperCase, i) : i \in 1..Len(UpperCase)}

\* the lower-case letter of each upper-case letter
LowerOf ==
    [c \in UpperLetters |->
        Char(LowerCase, CHOOSE i \in 1..Len(UpperCase) : Char(UpperCase, i) = c)]

\* re.IGNORECASE: characters are compared in lower case
LowerChar(c) == IF c \in UpperLetters THEN LowerOf[c] ELSE c

RECURSIVE Lower(_)
Lower(s) ==
    IF Len(s) = 0 THEN "" ELSE LowerChar(Char(s, 1)) \o Lower(SubSeq(s, 2, Len(s)))

\* A pattern of the form  pre  or  pre[._-]?post.
Lit(text) == [pre |-> text, opt |-> FALSE, post |-> ""]

Sep(pre, post) == [pre |-> pre, opt |-> TRUE, post |-> post]

SENSITIVE_PATTERNS ==
    << Lit("password"), Lit("passwd"), Lit("secret"), Sep("api", "key"),
       Lit("apikey"), Sep("auth", "token"), Sep("access", "token"),
       Sep("private", "key"), Sep("encryption", "key"), Lit("bearer"),
       Lit("credential"), Sep("user", "name"), Sep("first", "name"),
       Sep("last", "name"), Lit("email"), Sep("email", "address"),
       Sep("phone", "number"), Sep("ip", "address") >>

\* the literal text lit stands in s at position i (both in lower case)
LitAt(s, i, lit) ==
    /\ i >= 1
    /\ i + Len(lit) - 1 <= Len(s)
    /\ SubSeq(s, i, i + Len(lit) - 1) = lit

\* pattern p matches in s starting at position i
MatchAt(p, s, i) ==
    /\ LitAt(s, i, p.pre)
    /\ \/ ~p.opt
       \/ LitAt(s, i + Len(p.pre), p.post)
       \/ /\ i + Len(p.pre) <= Len(s)
          /\ Char(s, i + Len(p.pre)) \in {".", "_", "-"}
          /\ LitAt(s, i + Len(p.pre) + 1, p.post)

\* re.search of one pattern in a text in lower case
Search(p, s) == \E i \in 1..Len(s) : MatchAt(p, s, i)

WordCharSet == {Char(WordChars, i) : i \in 1..Len(WordChars)}

IsWordChar(c) == c \in WordCharSet

\* \b at the position before character i of s
BoundaryAt(s, i) ==
    (i > 1 /\ IsWordChar(Char(s, i - 1))) # (i <= Len(s) /\ IsWordChar(Char(s, i)))

\* PROTECTED_PATTERNS without the word boundaries of the first pattern.
SearchProtectedAnywhere(s) ==
    LET low == Lower(s)
    IN  \E i \in 1..Len(s) : LitAt(low, i, "attributes") \/ LitAt(low, i, "spinal")

\* PROTECTED_PATTERNS, compiled and searched:  \battributes\b | spinal
SearchProtected(s) ==
    LET low == Lower(s)
    IN  \E i \in 1..Len(s) :
            \/ /\ LitAt(low, i, "attributes")
               /\ BoundaryAt(s, i)
               /\ BoundaryAt(s, i + Len("attributes"))
            \/ LitAt(low, i, "spinal")

\* The extra patterns the model draws from (plain words, as in the tests).
ExtraTexts ==
    {"dogs_name", "personal_attributes", "spinal", "attributes", "my attributes",
     "SPINAL_ID"}

ExtraLists == UNION {[1..n -> ExtraTexts] : n \in 0..MaxExtra}

\* DefaultScrubber.__init__: "ValueError" for a protected extra pattern,
\* otherwise the patterns of the scrubber.
NewScrubber(extra) ==
    IF extra # <<>> /\ \E i \in 1..Len(extra) : SearchProtected(extra[i])
    THEN [state |-> "failed", patterns |-> <<>>]
    ELSE [state |-> "built",
          patterns |->
              SENSITIVE_PATTERNS \o [i \in 1..Len(extra) |-> Lit(Lower(extra[i]))]]

\* _is_sensitive_key: the compiled alternation of the patterns, case ignored
is_sensitive_key(ps, key) ==
    LET low == Lower(key) IN \E i \in 1..Len(ps) : Search(ps[i], low)

\* _get_matched_pattern: match.string is the whole key
get_matched_pattern(ps, key) ==
    IF is_sensitive_key(ps, key) THEN key ELSE "sensitive pattern"

\* Values: a string, a nested dict, a list.
Str(s) == [t |-> "str", v |-> s]

Map(m) == [t |-> "map", v |-> m]

List(l) == [t |-> "list", v |-> l]

\* Python's None as a value
None == [t |-> "none", v |-> ""]

RECURSIVE scrub_attributes(_, _)

\* The list comprehension leaving every item as it is.
ScrubItemsSkipped(ps, items) == items

\* [self.scrub_attributes(item) if isinstance(item, dict) else item ...]
ScrubItems(ps, items) ==
    [i \in 1..Len(items) |->
        IF items[i].t = "map" THEN Map(scrub_attributes(ps, items[i].v))
        ELSE items[i]]

\* A redaction that keeps the text it replaces.
ScrubValueKeeping(ps, key, value) ==
    IF is_sensitive_key(ps, key)
    THEN Str("[Scrubbed " \o (IF value.t = "str" THEN value.v ELSE "") \o "]")
    ELSE IF value.t = "map" THEN Map(scrub_attributes(ps, value.v))
    ELSE IF value.t = "list" THEN List(ScrubItems(ps, value.v))
    ELSE value

\* the body of the loop of scrub_attributes, for one key
ScrubValue(ps, key, value) ==
    IF is_sensitive_key(ps, key)
    THEN Str("[Scrubbed due to " \o get_matched_pattern(ps, key) \o "]")
    ELSE IF value.t = "map" THEN Map(scrub_attributes(ps, value.v))
    ELSE IF value.t = "list" THEN List(ScrubItems(ps, value.v))
    ELSE value

scrub_attributes(ps, attributes) ==
    IF DOMAIN attributes = {} THEN attributes
    ELSE [key \in DOMAIN attributes |-> ScrubValue(ps, key, attributes[key])]

\* The attribute maps the model draws from.
ScrubValues ==
    { Str("v"),
      Map([k \in {"secret"} |-> Str("s3")]),
      Map([k \in {"profile"} |-> Map([j \in {"Api_Key", "dogs_name"} |-> Str("v")])]),
      List(<<Map([k \in {"secret"} |-> Str("s3")]), Str("plain")>>),
      List(<<List(<<Map([k \in {"secret"} |-> Str("s3")])>>)>>),
      Map(EmptyMap) }

ScrubKeys == {"PASSWORD", "user.name", "note", "spinal.api_key"}

ScrubMaps ==
    UNION {[D -> ScrubValues] :
             D \in {K \in SUBSET ScrubKeys : Cardinality(K) <= MaxKeys}}

\* DefaultScrubber(extra_patterns=...)
Construct ==
    /\ scState = "none"
    /\ \E extra \in ExtraLists :
          /\ scExtra' = extra
          /\ scState' = NewScrubber(extra).state
          /\ scPatterns' = NewScrubber(extra).patterns
    /\ UNCHANGED <<scInput, scOutput, scTwice, procVars, filterVars, exportVars,
                   streamVars, decodeVars, sdkVars>>

\* scrubber.scrub_attributes(m) on a new scrubber, and then once more on what
\* it returned
ScrubAttributes ==
    /\ scState = "built"
    /\ \E m \in ScrubMaps :
          /\ scInput' = m
          /\ scOutput' = scrub_attributes(scPatterns, m)
          /\ scTwice' = scrub_attributes(scPatterns, scOutput')
    /\ scState' = "scrubbed"
    /\ UNCHANGED <<scExtra, scPatterns, procVars, filterVars, exportVars,
                   streamVars, decodeVars, sdkVars>>

NextScrub == Construct \/ ScrubAttributes

SpecScrub == Init /\ [][NextScrub]_vars

\* A redaction marker: a string that starts with "[Scrubbed".
IsMarker(value) ==
    /\ value.t = "str"
    /\ Len(value.v) >= Len("[Scrubbed")
    /\ SubSeq(value.v, 1, Len("[Scrubbed")) = "[Scrubbed"

RECURSIVE ScrubbedAs(_, _, _)
\* out is m with the values of sensitive keys redacted, at every depth
ScrubbedAs(ps, m, out) ==
    /\ DOMAIN out = DOMAIN m
    /\ \A k \in DOMAIN m :
          IF is_sensitive_key(ps, k) THEN IsMarker(out[k])
          ELSE IF m[k].t = "map"
               THEN out[k].t = "map" /\ ScrubbedAs(ps, m[k].v, out[k].v)
          ELSE IF m[k].t = "list"
               THEN /\ out[k].t = "list"
                    /\ Len(out[k].v) = Len(m[k].v)
                    /\ \A i \in 1..Len(m[k].v) :
                          IF m[k].v[i].t = "map"
                          THEN /\ out[k].v[i].t = "map"
                               /\ ScrubbedAs(ps, m[k].v[i].v, out[k].v[i].v)
                          ELSE out[k].v[i] = m[k].v[i]
          ELSE out[k] = m[k]

\* C13: scrub_attributes returns a map with the same keys; the value of a
\* sensitive key is a redaction marker, nested maps and the maps inside lists
\* are scrubbed the same way, every other value is unchanged.
C13_ScrubShape ==
    scState = "scrubbed" => ScrubbedAs(scPatterns, scInput, scOutput)

\* a map with a sensitive key inside a map inside a list, next to a scalar
C13_Witness ==
    /\ scState = "scrubbed"
    /\ "note" \in DOMAIN scInput
    /\ scInput["note"].t = "list"
    /\ Len(scInput["note"].v) = 2
    /\ scInput["note"].v[1].t = "map"
    /\ IsMarker(scOutput["note"].v[1].v["secret"])
    /\ scOutput["note"].v[2] = Str("plain")

\* C14: scrubbing what scrub_attributes returned gives the same map again.
C14_Idempotent == scState = "scrubbed" => scTwice = scOutput

\* a map that scrubbing changes, at the top and inside a nested map
C14_Witness ==
    /\ scState = "scrubbed"
    /\ scTwice = scOutput
    /\ scOutput # scInput
    /\ "PASSWORD" \in DOMAIN scInput
    /\ "note" \in DOMAIN scInput
    /\ scInput["note"].t = "map"
    /\ scOutput["note"] # scInput["note"]

\* The extra patterns that name 'spinal' anywhere or 'attributes' as a word.
ProtectedTexts == {"spinal", "attributes", "my attributes", "SPINAL_ID"}

\* C15: a DefaultScrubber given a protected extra pattern is not constructed
\* (ValueError) and never scrubs anything; one given other patterns is.
C15_ProtectedRejected ==
    scState # "none" =>
        /\ (\E i \in 1..Len(scExtra) : scExtra[i] \in ProtectedTexts)
              <=> scState = "failed"
        /\ scState = "failed" => scInput = EmptyMap /\ scOutput = EmptyMap

\* the extra pattern 'personal_attributes' accepted
C15_Witness ==
    /\ scState = "scrubbed"
    /\ Len(scExtra) >= 1
    /\ scExtra[Len(scExtra)] = "personal_attributes"

RECURSIVE ProtectedKept(_, _, _)
\* no key of m that matches a protected pattern has its value redacted in out
ProtectedKept(ps, m, out) ==
    \A k \in DOMAIN m :
        /\ SearchProtected(k) => out[k] = m[k] \/ ~IsMarker(out[k])
        /\ (m[k].t = "map" /\ out[k].t = "map") => ProtectedKept(ps, m[k].v, out[k].v)

\* C16: scrub_attributes never replaces the value of a key that matches a
\* protected pattern.
C16_ProtectedKept ==
    scState = "scrubbed" => ProtectedKept(scPatterns, scInput, scOutput)

(* ----------------------------- safe_decode ----------------------------- *)

\* The byte values the model draws from: 'A', the two bytes of U+00E9 in
\* UTF-8, a byte Windows-1252 maps to the euro sign, one it leaves undefined,
\* the lead byte of a three-byte sequence, and a byte no UTF-8 text holds.
ByteValues == {65, 195, 169, 128, 129, 226, 255}

ByteSeqs == UNION {[1..n -> ByteValues] : n \in 0..MaxBytes}

\* bytes.decode("utf-8"): how many bytes the sequence led by b has, 0 if b
\* leads none
Utf8Width(b) ==
    IF b < 128 THEN 1
    ELSE IF b >= 194 /\ b <= 223 THEN 2
    ELSE IF b >= 224 /\ b <= 239 THEN 3
    ELSE IF b >= 240 /\ b <= 244 THEN 4
    ELSE 0

\* the values the byte after lead byte b may have
Utf8Second(b) ==
    IF b = 224 THEN 160..191
    ELSE IF b = 237 THEN 128..159
    ELSE IF b = 240 THEN 144..191
    ELSE IF b = 244 THEN 128..143
    ELSE 128..191

\* the sequence of Utf8Width(bs[1]) bytes at the head of bs is well formed
Utf8HeadOk(bs) ==
    LET w == Utf8Width(bs[1])
    IN  /\ w >= 1
        /\ Len(bs) >= w
        /\ w >= 2 => bs[2] \in Utf8Second(bs[1])
        /\ \A i \in 3..w : bs[i] \in 128..191

\* the code point of that sequence
Utf8HeadPoint(bs) ==
    LET w == Utf8Width(bs[1])
    IN  IF w = 1 THEN bs[1]
        ELSE IF w = 2 THEN (bs[1] % 32) * 64 + (bs[2] % 64)
        ELSE IF w = 3 THEN (bs[1] % 16) * 4096 + (bs[2] % 64) * 64 + (bs[3] % 64)
        ELSE (bs[1] % 8) * 262144 + (bs[2] % 64) * 4096 + (bs[3] % 64) * 64
             + (bs[4] % 64)

RECURSIVE Utf8Decode(_)
\* bytes.decode("utf-8"), strict: UnicodeDecodeError or the text
Utf8Decode(bs) ==
    IF bs = <<>> THEN [raises |-> FALSE, text |-> <<>>]
    ELSE IF ~Utf8HeadOk(bs) THEN [raises |-> TRUE, text |-> <<>>]
    ELSE LET rest == Utf8Decode(SubSeq(bs, Utf8Width(bs[1]) + 1, Len(bs)))
         IN  IF rest.raises THEN rest
             ELSE [raises |-> FALSE, text |-> <<Utf8HeadPoint(bs)>> \o rest.text]

\* Windows-1252 for the bytes 128..159, 0 where it defines no character
Cp1252High ==
    << 8364, 0, 8218, 402, 8222, 8230, 8224, 8225, 710, 8240, 352, 8249, 338, 0,
       381, 0, 0, 8216, 8217, 8220, 8221, 8226, 8211, 8212, 732, 8482, 353, 8250,
       339, 0, 382, 376 >>

Cp1252Point(b) == IF b >= 128 /\ b <= 159 THEN Cp1252High[b - 127] ELSE b

\* A Windows-1252 decoder that passes the undefined bytes through.
Cp1252DecodeLenient(bs) == [raises |-> FALSE, text |-> bs]

\* bytes.decode("windows-1252"), strict
Cp1252Decode(bs) ==
    IF \E i \in 1..Len(bs) : Cp1252Point(bs[i]) = 0
    THEN [raises |-> TRUE, text |-> <<>>]
    ELSE [raises |-> FALSE, text |-> [i \in 1..Len(bs) |-> Cp1252Point(bs[i])]]

\* bytes.decode("latin-1", errors="replace"): every byte is its code point
Latin1Decode(bs) == [raises |-> FALSE, text |-> bs]

\* safe_decode: the codec that answered and the text, "raised" if an
\* exception left the function
safe_decode(bs) ==
    IF ~Utf8Decode(bs).raises THEN [how |-> "utf-8", text |-> Utf8Decode(bs).text]
    ELSE IF ~Cp1252Decode(bs).raises
         THEN [how |-> "windows-1252", text |-> Cp1252Decode(bs).text]
    ELSE IF ~Latin1Decode(bs).raises
         THEN [how |-> "latin-1", text |-> Latin1Decode(bs).text]
    ELSE [how |-> "raised", text |-> <<>>]

\* safe_decode(bs), called once
SafeDecodeCall ==
    /\ dHow = "none"
    /\ \E bs \in ByteSeqs :
          /\ dBytes' = bs
          /\ dText' = safe_decode(bs).text
          /\ dHow' = safe_decode(bs).how
    /\ UNCHANGED <<procVars, filterVars, exportVars, streamVars, scrubVars, pSpan,
                   pOut, sdkVars>>

SpecSafeDecode == Init /\ [][SafeDecodeCall]_vars

\* The UTF-8 encoding of one code point (up to U+FFFF).
Utf8EncodePoint(c) ==
    IF c < 128 THEN <<c>>
    ELSE IF c < 2048 THEN <<192 + (c \div 64), 128 + (c % 64)>>
    ELSE <<224 + (c \div 4096), 128 + ((c \div 64) % 64), 128 + (c % 64)>>

RECURSIVE Utf8Encode(_)
Utf8Encode(text) ==
    IF text = <<>> THEN <<>> ELSE Utf8EncodePoint(Head(text)) \o Utf8Encode(Tail(text))

\* the bytes Windows-1252 defines no character for
Cp1252Undefined == {129, 141, 143, 144, 157}

\* C17: safe_decode always returns a string. It is the UTF-8 text of the
\* bytes when they are UTF-8 (encoding it gives the bytes back); otherwise the
\* Windows-1252 text when no byte is undefined in Windows-1252 (one character
\* per byte, the bytes 128..159 as their Windows-1252 characters); otherwise
\* the Latin-1 text (every byte its own code point).
C17_SafeDecode ==
    dHow # "none" =>
        /\ dHow \in {"utf-8", "windows-1252", "latin-1"}
        /\ dHow = "utf-8" => Utf8Encode(dText) = dBytes
        /\ dHow # "utf-8" =>
              /\ Len(dText) = Len(dBytes)
              /\ \A i \in 1..Len(dBytes) :
                    (dBytes[i] < 128 \/ dBytes[i] > 159) => dText[i] = dBytes[i]
        /\ dHow = "windows-1252" =>
              \A i \in 1..Len(dBytes) :
                  /\ dBytes[i] \notin Cp1252Undefined
                  /\ dBytes[i] \in 128..159 => dText[i] > 255
        /\ dHow = "latin-1" =>
              /\ \E i \in 1..Len(dBytes) : dBytes[i] \in Cp1252Undefined
              /\ dText = dBytes
        /\ (\A i \in 1..Len(dBytes) : dBytes[i] < 128) => dHow = "utf-8"

\* bytes that are neither UTF-8 nor Windows-1252, decoded by the last fallback
C17_Witness ==
    /\ dHow = "latin-1"
    /\ Len(dBytes) >= 2
    /\ dText = dBytes
    /\ \E i \in 1..Len(dBytes) : dBytes[i] = 129
    /\ \E i \in 1..Len(dBytes) : dBytes[i] = 128

(* ------------------- decoding the bodies of a span --------------------- *)

\* A body is described by how its bytes are framed and by the text they hold:
\*   frame "raw": the text itself;  "gzip": a complete gzip stream of it;
\*   "gzip_truncated": the gzip magic and then nothing more, or a stream cut
\*   short;  "gzip_corrupt": a gzip header followed by bytes that are no
\*   deflate stream.
\*   text "object": {"model": "m", "choices": [..]};  "object_reserved":
\*   {"model": "m", "spinal.request.binary_data": "x"};  "malformed": bytes
\*   that are no JSON document, such as a form-encoded body a=1&b=2;
\*   "object_secret": {"model": "m", "password": "hunter2"};
\*   "nested_secret": {"model": "m", "data": [[{"password": "hunter2"}]]};
\*   "input_ig": {"model": "m", "input": [{"id": "ig_1", "result": "b64"},
\*                {"id": "msg_1", "result": "keep"}]};
\*   "input_strings": {"model": "m", "input": ["hello"]}, the shape of an
\*   embeddings request;  "input_text": {"model": "m", "input": "hello"}.
BodyTexts == {"object", "object_reserved", "malformed"}

RequestTexts ==
    BodyTexts \cup {"object_secret", "input_ig", "input_strings", "input_text"}

ResponseTexts == BodyTexts \cup {"object_secret", "nested_secret"}

RequestBodies == {NoBody} \cup {[frame |-> "raw", text |-> x] : x \in RequestTexts}

ResponseBodies ==
    {NoBody}
    \cup {[frame |-> f, text |-> x] :
            f \in {"raw", "gzip", "gzip_truncated", "gzip_corrupt"},
            x \in ResponseTexts}

ContentTypes ==
    {"application/json", "text/event-stream", "audio/mpeg", "text/plain"}

\* spinal.provider: four providers, and "" for a span without the attribute
DecodeProviders == {"openai", "serpapi", "scrapingbee", "perplexity", ""}

DecodeSpans ==
    [provider : DecodeProviders, contentType : ContentTypes,
     contentEncoding : {"", "gzip"}, request : RequestBodies,
     response : ResponseBodies]

\* a memoryview attribute
Bytes(body) == [t |-> "bytes", v |-> body]

REQUEST_KEY == "spinal.request.binary_data"

RESPONSE_KEY == "spinal.response.binary_data"

HEADER_PREFIX == "spinal.http.response.header."

\* the response header ScrapingBee reports the cost of a call in, as the
\* integrations record it
SPB_COST == "spinal.http.response.header.Spb-cost"

\* dict(span.attributes)
SpanAttributes(span) ==
    LET always == {"http.url", "content-type", "content-encoding",
                   "spinal.http.response.header.x-request-id"}
        keys == always
                \cup (IF span.provider # "" THEN {"spinal.provider"} ELSE {})
                \cup (IF span.provider = "scrapingbee" THEN {SPB_COST} ELSE {})
                \cup (IF span.request # NoBody THEN {REQUEST_KEY} ELSE {})
                \cup (IF span.response # NoBody THEN {RESPONSE_KEY} ELSE {})
    IN  [k \in keys |->
            IF k = REQUEST_KEY THEN Bytes(span.request)
            ELSE IF k = RESPONSE_KEY THEN Bytes(span.response)
            ELSE IF k = "spinal.provider" THEN Str(span.provider)
            ELSE IF k = "content-type" THEN Str(span.contentType)
            ELSE IF k = "content-encoding" THEN Str(span.contentEncoding)
            ELSE Str("v")]

\* attributes minus one key (dict.pop)
Popped(attributes, key) == [k \in DOMAIN attributes \ {key} |-> attributes[k]]

\* a | b, a.update(b)
Merged(a, b) ==
    [k \in DOMAIN a \cup DOMAIN b |-> IF k \in DOMAIN b THEN b[k] ELSE a[k]]

\* attributes.get(key, "") of a string attribute
GetStr(attributes, key) == IF key \in DOMAIN attributes THEN attributes[key].v ELSE ""

Raised(exc) == [exc |-> exc, value |-> EmptyMap]

Returned(value) == [exc |-> "none", value |-> value]

\* orjson.loads of the bytes (or of their text): the object of a raw JSON
\* text, JSONDecodeError for anything else
JsonLoads(body) ==
    IF body.frame # "raw" \/ body.text = "malformed" THEN Raised("JSONDecodeError")
    ELSE IF body.text = "object_reserved"
         THEN Returned([k \in {"model", REQUEST_KEY} |-> Str("x")])
    ELSE IF body.text = "object_secret"
         THEN Returned([k \in {"model", "password"} |->
                          IF k = "password" THEN Str("hunter2") ELSE Str("x")])
    ELSE IF body.text = "nested_secret"
         THEN Returned([k \in {"model", "data"} |->
                          IF k = "data"
                          THEN List(<<List(<<Map([j \in {"password"} |->
                                                    Str("hunter2")])>>)>>)
                          ELSE Str("x")])
    ELSE IF body.text = "input_ig"
         THEN Returned([k \in {"model", "input"} |->
                          IF k = "input"
                          THEN List(<<Map([j \in {"id", "result"} |->
                                            IF j = "id" THEN Str("ig_1")
                                            ELSE Str("b64")]),
                                      Map([j \in {"id", "result"} |->
                                            IF j = "id" THEN Str("msg_1")
                                            ELSE Str("keep")])>>)
                          ELSE Str("x")])
    ELSE IF body.text = "input_strings"
         THEN Returned([k \in {"model", "input"} |->
                          IF k = "input" THEN List(<<Str("hello")>>) ELSE Str("x")])
    ELSE IF body.text = "input_text"
         THEN Returned([k \in {"model", "input"} |->
                          IF k = "input" THEN Str("hello") ELSE Str("x")])
    ELSE Returned([k \in {"model", "choices"} |-> Str("x")])

\* gzip.decompress
GzipDecompress(body) ==
    IF body.frame = "gzip" THEN [exc |-> "none", body |-> [body EXCEPT !.frame = "raw"]]
    ELSE IF body.frame = "gzip_truncated" THEN [exc |-> "EOFError", body |-> body]
    ELSE IF body.frame = "gzip_corrupt" THEN [exc |-> "zlib.error", body |-> body]
    ELSE [exc |-> "BadGzipFile", body |-> body]

\* try: gzip.decompress ... except gzip.BadGzipFile: pass
Gunzip(body) ==
    LET r == GzipDecompress(body)
    IN  IF r.exc = "BadGzipFile" THEN [exc |-> "none", body |-> body] ELSE r

\* The names get_provider has a branch for.
ProviderKeys ==
    {"openai", "anthropic", "firecrawl", "scrapingbee", "serpapi", "elevenlabs",
     "deepgram", "perplexity", "mistral", "vertexai", "voyageai"}

\* get_provider: ValueError for a name that is no provider (None included)
get_provider(name) == IF name \in ProviderKeys THEN "none" ELSE "ValueError"

\* provider.parse_request_attributes: BaseProvider's, for both providers
parse_request_attributes(provider, request_attributes) == request_attributes

\* provider.parse_response_attributes. Perplexity's builds
\*   {"usage": response_attributes.get("usage", {}),
\*    "model": response_attributes.get("model")}
\* whatever it is given.
parse_response_attributes(provider, response_attributes) ==
    IF provider \in {"serpapi", "scrapingbee"} THEN EmptyMap
    ELSE IF provider = "perplexity"
         THEN [k \in {"usage", "model"} |->
                 IF k \in DOMAIN response_attributes THEN response_attributes[k]
                 ELSE IF k = "usage" THEN Map(EmptyMap) ELSE None]
    ELSE Popped(response_attributes, "choices")

\* provider.parse_response_headers: BaseProvider's parses none, ScrapingBee's
\* keeps the cost
parse_response_headers(provider, all_response_headers) ==
    IF provider = "scrapingbee" /\ SPB_COST \in DOMAIN all_response_headers
    THEN [k \in {"cost"} |-> all_response_headers[SPB_COST]]
    ELSE EmptyMap

\* provider.handle_event_stream: BaseProvider's raises NotImplementedError;
\* Perplexity's reads the lines that start with data:, of which the bodies
\* above have none, and returns {"usage": None, "model": None}
handle_event_stream(provider) ==
    IF provider = "openai" THEN Returned([k \in {"output"} |-> Str("x")])
    ELSE IF provider = "perplexity"
         THEN Returned([k \in {"usage", "model"} |-> None])
    ELSE Raised("NotImplementedError")

\* d.startswith("ig_")
IsImageId(d) == Len(d) >= Len("ig_") /\ SubSeq(d, 1, Len("ig_")) = "ig_"

\* bool(value) of a JSON value
Truthy(value) ==
    IF value.t = "str" THEN value.v # ""
    ELSE IF value.t = "list" THEN value.v # <<>>
    ELSE DOMAIN value.v # {}

\* One pass of the loop over request_attributes["input"]:
\*   if (d := i.get("id")) and d.startswith("ig_"): del i["result"]
\* i.get of an element that is no dict and d.startswith of an id that is no
\* string are AttributeErrors; del of an absent key is a KeyError.
StripElement(i) ==
    IF i.t # "map" THEN [exc |-> "AttributeError", value |-> i]
    ELSE IF "id" \notin DOMAIN i.v \/ ~Truthy(i.v["id"])
         THEN [exc |-> "none", value |-> i]
    ELSE IF i.v["id"].t # "str" THEN [exc |-> "AttributeError", value |-> i]
    ELSE IF ~IsImageId(i.v["id"].v) THEN [exc |-> "none", value |-> i]
    ELSE IF "result" \notin DOMAIN i.v THEN [exc |-> "KeyError", value |-> i]
    ELSE [exc |-> "none", value |-> Map(Popped(i.v, "result"))]

\* request_input = request_attributes.get("input", []); the loop over it when
\* it is a list
StripInput(request_attributes) ==
    IF "input" \notin DOMAIN request_attributes
       \/ request_attributes["input"].t # "list"
    THEN Returned(request_attributes)
    ELSE LET items == request_attributes["input"].v
             done == [n \in 1..Len(items) |-> StripElement(items[n])]
             bad == {n \in 1..Len(items) : done[n].exc # "none"}
         IN  IF bad # {}
             THEN Raised(done[CHOOSE n \in bad : \A o \in bad : n <= o].exc)
             ELSE Returned([request_attributes EXCEPT
                              !["input"] = List([n \in 1..Len(items) |->
                                                   done[n].value])])

\* decode_request_binary_data
decode_request_binary_data(attributes) ==
    LET rest == Popped(attributes, REQUEST_KEY)
    IN  IF REQUEST_KEY \notin DOMAIN attributes THEN Returned(rest)
        ELSE LET loaded == JsonLoads(attributes[REQUEST_KEY].v)
                 stripped == StripInput(loaded.value)
                 provider == GetStr(rest, "spinal.provider")
             IN  IF loaded.exc # "none" THEN Raised(loaded.exc)
                 ELSE IF stripped.exc # "none" THEN Raised(stripped.exc)
                 ELSE IF get_provider(provider) # "none"
                      THEN Raised(get_provider(provider))
                 ELSE Returned(Merged(rest,
                          parse_request_attributes(provider, stripped.value)))

\* the branch on content_type: the response attributes before the provider
\* parses them
ResponseAttributes(provider, content_type, body) ==
    IF content_type = "audio/mpeg"
    THEN Returned([k \in {"audio_size_bytes", "audio_format"} |-> Str("x")])
    ELSE IF content_type = "text/event-stream" THEN handle_event_stream(provider)
    ELSE IF content_type = "application/json"
         THEN IF JsonLoads(body).exc = "none" THEN JsonLoads(body)
              ELSE Returned([k \in {"raw_content", "parse_error", "content_type"}
                               |-> Str("x")])
    ELSE Returned(EmptyMap)

\* k.startswith("spinal.http.response.header.")
IsHeaderKey(k) ==
    /\ Len(k) >= Len(HEADER_PREFIX)
    /\ SubSeq(k, 1, Len(HEADER_PREFIX)) = HEADER_PREFIX

\* decode_response_binary_data
decode_response_binary_data(attributes) ==
    LET rest == Popped(attributes, RESPONSE_KEY)
    IN  IF RESPONSE_KEY \notin DOMAIN attributes THEN Returned(rest)
        ELSE LET raw == attributes[RESPONSE_KEY].v
                 unzipped == IF GetStr(rest, "content-encoding") = "gzip"
                             THEN Gunzip(raw) ELSE [exc |-> "none", body |-> raw]
                 provider == GetStr(rest, "spinal.provider")
                 found == ResponseAttributes(provider, GetStr(rest, "content-type"),
                                             unzipped.body)
                 kept == [k \in {x \in DOMAIN rest : ~IsHeaderKey(x)} |-> rest[k]]
                 all_response_headers ==
                     [k \in {x \in DOMAIN rest : IsHeaderKey(x)} |-> rest[k]]
             IN  IF unzipped.exc # "none" THEN Raised(unzipped.exc)
                 ELSE IF get_provider(provider) # "none"
                      THEN Raised(get_provider(provider))
                 ELSE IF found.exc # "none" THEN Raised(found.exc)
                 ELSE Returned(Merged(Merged(kept,
                          parse_response_attributes(provider, found.value)),
                          parse_response_headers(provider, all_response_headers)))

\* The attributes of one span as export() builds them: both decodings, then
\* the scrubber of the configuration (DefaultScrubber()).
PayloadAttributes(span) ==
    LET req == decode_request_binary_data(SpanAttributes(span))
        resp == decode_response_binary_data(req.value)
    IN  IF req.exc # "none" THEN req
        ELSE IF resp.exc # "none" THEN resp
        ELSE Returned(scrub_attributes(SENSITIVE_PATTERNS, resp.value))

\* What the POST of the payload comes to: a response with a status code, or
\* an exception of the transport.
PostOutcomes ==
    {[ok |-> TRUE, status |-> 200], [ok |-> TRUE, status |-> 500],
     [ok |-> FALSE, status |-> 200]}

\* export([span]) on an exporter that is not shut down, called once
ExportSpan ==
    /\ pOut.result = "none"
    /\ \E span \in DecodeSpans :
          LET prep == PayloadAttributes(span)
          IN  \E post \in PostOutcomes :
                 LET out == Export(FALSE, prep.exc = "none", post.ok, post.status)
                 IN  /\ pSpan' = span
                     /\ pOut' = [exc |-> prep.exc, result |-> out.result,
                                 posts |-> out.posts, payload |-> prep.value]
    /\ UNCHANGED <<procVars, filterVars, exportVars, streamVars, scrubVars, dBytes,
                   dText, dHow, sdkVars>>

SpecDecode == Init /\ [][ExportSpan]_vars

\* C18: a response tagged content-encoding gzip whose bytes do not
\* decompress is decoded from its original bytes: no exception of the
\* decompression leaves the decoding.
C18_GzipResilience ==
    (/\ pOut.result # "none"
     /\ pSpan.contentEncoding = "gzip"
     /\ pSpan.response.frame \in {"raw", "gzip_truncated", "gzip_corrupt"})
    => pOut.exc \notin {"BadGzipFile", "EOFError", "zlib.error"}

\* C19: a request body or response body that is no JSON never aborts the
\* span: the JSON error does not leave the decoding.
C19_MalformedJson ==
    (/\ pOut.result # "none"
     /\ \/ pSpan.request.text = "malformed"
        \/ pSpan.response.text = "malformed")
    => pOut.exc # "JSONDecodeError"

\* C20: the attributes of a POSTed span hold neither of the two binary-data
\* keys.
C20_NoBinaryKeys ==
    pOut.posts = 1 =>
        /\ REQUEST_KEY \notin DOMAIN pOut.payload
        /\ RESPONSE_KEY \notin DOMAIN pOut.payload

RECURSIVE Leaks(_, _)
\* value holds, at some depth, a sensitive key whose value is no marker
Leaks(ps, value) ==
    IF value.t = "map"
    THEN \E k \in DOMAIN value.v :
            IF is_sensitive_key(ps, k) THEN ~IsMarker(value.v[k])
            ELSE Leaks(ps, value.v[k])
    ELSE IF value.t = "list"
         THEN \E n \in 1..Len(value.v) : Leaks(ps, value.v[n])
    ELSE FALSE

\* C21: in a POSTed span every sensitive key that came out of a decoded
\* request or response body carries the redaction marker, at whatever depth
\* of the body it sits.
C21_DecodedThenScrubbed ==
    pOut.posts = 1 => ~Leaks(SENSITIVE_PATTERNS, Map(pOut.payload))

\* C29: a request body that parses to a JSON object is decoded without an
\* error of the loop over its "input" list, whatever the JSON type of the
\* elements of that list.
C29_StripTotal ==
    (/\ pOut.result # "none"
     /\ pSpan.request # NoBody
     /\ JsonLoads(pSpan.request).exc = "none")
    => /\ StripInput(JsonLoads(pSpan.request).value).exc = "none"
       /\ pOut.exc \notin {"AttributeError", "KeyError"}

\* C30: the attributes of a POSTed span hold no raw response header key,
\* whether or not the span carries a response body.
C30_NoRawHeaders ==
    pOut.posts = 1 => \A k \in DOMAIN pOut.payload : ~IsHeaderKey(k)

(* ------------------------ the provider registry ------------------------ *)

\* The names get_provider is called with: four it has a branch for, and three
\* it has none for ("" stands for None, the value of an absent spinal.provider
\* attribute).
LookupNames ==
    {"openai", "anthropic", "serpapi", "scrapingbee", "", "OpenAI", "gemini"}

\* A registry that caches whatever name it is asked for.
CacheAfterAnyName(cache, name) == cache \cup {name}

\* _provider_cache after get_provider(name): a name that is not cached is
\* added when one of the branches matches it; the else branch raises before
\* anything is stored.
CacheAfter(cache, name) ==
    IF name \notin cache /\ name \in ProviderKeys THEN cache \cup {name} ELSE cache

\* what get_provider(name) comes to: the cached instance, or the ValueError
\* of the else branch
LookupResult(cache, name) ==
    IF name \in cache THEN "provider"
    ELSE IF get_provider(name) = "none" THEN "provider"
    ELSE get_provider(name)

\* get_provider(name)
GetProvider ==
    /\ \E name \in LookupNames :
          /\ gpName' = name
          /\ gpBefore' = gpCache
          /\ gpOut' = LookupResult(gpCache, name)
          /\ gpCache' = CacheAfter(gpCache, name)
    /\ UNCHANGED <<pipeVars, cfgVars, tagVars, aioVars, extVars>>

SpecRegistry == Init /\ [][GetProvider]_vars

\* C22 as amended: get_provider of a name that is no registered key raises
\* ValueError and leaves the cache as it was; no name other than a registered
\* key is ever cached.
C22_UnknownRejected ==
    /\ gpCache \subseteq ProviderKeys
    /\ (gpOut # "none" /\ gpName \notin ProviderKeys)
          => (gpOut = "ValueError" /\ gpCache = gpBefore)

\* an unknown name looked up while the cache holds a provider
C22_Witness ==
    gpOut = "ValueError" /\ gpName = "gemini" /\ gpCache = {"openai"}

\* C22 as stated: the error get_provider raises for a name that is no
\* registered key is ProviderNotFound, and the cache is left as it was.
C22_ProviderNotFound ==
    (gpOut # "none" /\ gpName \notin ProviderKeys)
        => (gpOut = "ProviderNotFound" /\ gpCache = gpBefore)

(* ------------------------------ the SDK -------------------------------- *)

\* The application is one thread; SPINAL_API_KEY and SPINAL_TRACING_ENDPOINT
\* are not set in the environment.  A frame of cfgStack is a call under way:
\* fn is "configure" or "get_config", or "ret" for a call that has ended and
\* whose result val (a config or an exception) is on its way to the caller.

\* configure() without arguments
NoArgs == [endpoint |-> "", api_key |-> ""]

\* The keyword arguments configure is called with.
ConfigArgs ==
    {NoArgs, [endpoint |-> "https://api1.example.com", api_key |-> "key1"],
     [endpoint |-> "https://api2.example.com", api_key |-> "key2"],
     [endpoint |-> "https://api2.example.com", api_key |-> ""]}

NoResult == [exc |-> "none", config |-> NoConfig]

Frame(fn, pc, args) == [fn |-> fn, pc |-> pc, args |-> args, val |-> NoResult]

Ret(val) == [fn |-> "ret", pc |-> "ret", args |-> NoArgs, val |-> val]

\* SpinalConfig.__init__: the n-th config object made, or the ValueError for
\* a missing API key
SpinalConfigInit(args, n) ==
    IF args.api_key = "" THEN [exc |-> "ValueError", config |-> NoConfig]
    ELSE [exc |-> "none",
          config |-> [endpoint |-> IF args.endpoint = ""
                                   THEN "https://cloud.withspinal.com"
                                   ELSE args.endpoint,
                      api_key |-> args.api_key, made |-> n]]

CfgTop == cfgStack[Len(cfgStack)]

\* cfgStack with its innermost frame replaced
WithTop(frame) == [cfgStack EXCEPT ![Len(cfgStack)] = frame]

Pending == [state |-> "pending", exc |-> "none", config |-> NoConfig]

\* the application calls sp_obs.configure(**args)
ConfigureCall ==
    /\ cfgStack = <<>>
    /\ Len(cfgCalls) < MaxSdkCalls
    /\ \E args \in ConfigArgs :
          /\ cfgStack' = <<Frame("configure", "acquire", args)>>
          /\ cfgCalls' = Append(cfgCalls,
                                [op |-> "configure", args |-> args, out |-> Pending])
    /\ UNCHANGED <<sdkLock, sdkInitialized, sdkConfig, tpStub, pipeVars, regVars,
                   tagVars, aioVars, extVars>>

\* the application calls get_config()
GetConfigCall ==
    /\ cfgStack = <<>>
    /\ Len(cfgCalls) < MaxSdkCalls
    /\ cfgStack' = <<Frame("get_config", "check", NoArgs)>>
    /\ cfgCalls' = Append(cfgCalls,
                          [op |-> "get_config", args |-> NoArgs, out |-> Pending])
    /\ UNCHANGED <<sdkLock, sdkInitialized, sdkConfig, tpStub, pipeVars, regVars,
                   tagVars, aioVars, extVars>>

\* threading.Lock: with self._lock goes on only when the lock is free,
\* whoever holds it
LockAdmits(lock) == lock = "free"

\* configure: with self._lock
AcquireLock ==
    /\ cfgStack # <<>>
    /\ CfgTop.fn = "configure" /\ CfgTop.pc = "acquire"
    /\ LockAdmits(sdkLock)
    /\ sdkLock' = "held"
    /\ cfgStack' = WithTop([CfgTop EXCEPT !.pc = "locked"])
    /\ UNCHANGED <<sdkInitialized, sdkConfig, tpStub, cfgCalls, pipeVars, regVars,
                   tagVars, aioVars, extVars>>

\* if self._initialized: return self.config
AlreadyConfigured(initialized) == initialized

\* configure, inside the lock: the early return, or self.config =
\* SpinalConfig(...); its ValueError leaves the with block
ConfigureBody ==
    /\ cfgStack # <<>>
    /\ CfgTop.fn = "configure" /\ CfgTop.pc = "locked"
    /\ LET made == SpinalConfigInit(CfgTop.args, sdkConfig.made + 1)
       IN  IF AlreadyConfigured(sdkInitialized)
           THEN /\ cfgStack' = WithTop(Ret([exc |-> "none", config |-> sdkConfig]))
                /\ sdkLock' = "free"
                /\ UNCHANGED sdkConfig
           ELSE IF made.exc # "none"
           THEN /\ cfgStack' = WithTop(Ret(made))
                /\ sdkLock' = "free"
                /\ UNCHANGED sdkConfig
           ELSE /\ cfgStack' = WithTop([CfgTop EXCEPT !.pc = "tracer"])
                /\ sdkConfig' = made.config
                /\ UNCHANGED sdkLock
    /\ UNCHANGED <<sdkInitialized, tpStub, cfgCalls, pipeVars, regVars, tagVars,
                   aioVars, extVars>>

\* self.tracer_provider = SpinalTracerProvider(self.config) and its .provider:
\* __new__ (or the provider property) calls create_isolated_provider, which
\* calls get_config(); a stand-in does none of this.
TracerProvider ==
    /\ cfgStack # <<>>
    /\ CfgTop.fn = "configure" /\ CfgTop.pc = "tracer"
    /\ cfgStack' = IF tpStub THEN WithTop([CfgTop EXCEPT !.pc = "finish"])
                   ELSE Append(WithTop([CfgTop EXCEPT !.pc = "tracer_wait"]),
                               Frame("get_config", "check", NoArgs))
    /\ UNCHANGED <<sdkLock, sdkInitialized, sdkConfig, tpStub, cfgCalls, pipeVars,
                   regVars, tagVars, aioVars, extVars>>

\* SpinalSDK.get_config
GetConfigCheck ==
    /\ cfgStack # <<>>
    /\ CfgTop.fn = "get_config" /\ CfgTop.pc = "check"
    /\ cfgStack' = IF ~sdkInitialized
                   THEN Append(WithTop([CfgTop EXCEPT !.pc = "wait"]),
                               Frame("configure", "acquire", NoArgs))
                   ELSE WithTop(Ret([exc |-> "none", config |-> sdkConfig]))
    /\ UNCHANGED <<sdkLock, sdkInitialized, sdkConfig, tpStub, cfgCalls, pipeVars,
                   regVars, tagVars, aioVars, extVars>>

\* configure: the instrumentors, self._initialized = True, return self.config
ConfigureFinish ==
    /\ cfgStack # <<>>
    /\ CfgTop.fn = "configure" /\ CfgTop.pc = "finish"
    /\ sdkInitialized' = TRUE
    /\ sdkLock' = "free"
    /\ cfgStack' = WithTop(Ret([exc |-> "none", config |-> sdkConfig]))
    /\ UNCHANGED <<sdkConfig, tpStub, cfgCalls, pipeVars, regVars, tagVars, aioVars,
                   extVars>>

\* A call that has ended hands its result to its caller: the application,
\* get_config (which returns what configure returned), or
\* create_isolated_provider inside configure (RuntimeError for no config; an
\* exception leaves configure's with block).
Deliver ==
    /\ cfgStack # <<>>
    /\ CfgTop.fn = "ret"
    /\ LET val == CfgTop.val
           rest == SubSeq(cfgStack, 1, Len(cfgStack) - 1)
           caller == rest[Len(rest)]
           raised == IF val.exc # "none" THEN val
                     ELSE [exc |-> "RuntimeError", config |-> NoConfig]
       IN  IF rest = <<>>
           THEN /\ cfgStack' = <<>>
                /\ cfgCalls' = [cfgCalls EXCEPT ![Len(cfgCalls)].out =
                                   [state |-> IF val.exc = "none" THEN "returned"
                                              ELSE "raised",
                                    exc |-> val.exc, config |-> val.config]]
                /\ UNCHANGED sdkLock
           ELSE IF caller.fn = "get_config"
           THEN /\ cfgStack' = [rest EXCEPT ![Len(rest)] = Ret(val)]
                /\ UNCHANGED <<cfgCalls, sdkLock>>
           ELSE IF val.exc = "none" /\ val.config # NoConfig
           THEN /\ cfgStack' = [rest EXCEPT ![Len(rest)].pc = "finish"]
                /\ UNCHANGED <<cfgCalls, sdkLock>>
           ELSE /\ cfgStack' = [rest EXCEPT ![Len(rest)] = Ret(raised)]
                /\ sdkLock' = "free"
                /\ UNCHANGED cfgCalls
    /\ UNCHANGED <<sdkInitialized, sdkConfig, tpStub, pipeVars, regVars, tagVars,
                   aioVars, extVars>>

\* The steps of a call under way.
SdkStep ==
    \/ AcquireLock
    \/ ConfigureBody
    \/ TracerProvider
    \/ GetConfigCheck
    \/ ConfigureFinish
    \/ Deliver

NextSdk == ConfigureCall \/ GetConfigCall \/ SdkStep

\* The SDK as the module creates it; SpinalTracerProvider is the class of
\* tracer.py, or the stand-in the configuration tests patch in.
InitSdk ==
    /\ InitProc /\ FilterIdle /\ ExportIdle /\ StreamIdle /\ CodecIdle
    /\ RegistryIdle /\ TagIdle /\ AioIdle /\ ExtIdle
    /\ sdkLock = "free" /\ sdkInitialized = FALSE /\ sdkConfig = NoConfig
    /\ tpStub \in BOOLEAN /\ cfgStack = <<>> /\ cfgCalls = <<>>

SpecSdk == InitSdk /\ [][NextSdk]_vars

\* A call under way goes on whenever it can.
FairSdk == WF_vars(SdkStep)

FairSpecSdk == InitSdk /\ [][NextSdk]_vars /\ FairSdk

\* the j-th call of the application is a configure() that returned a config
ConfigureReturned(j) ==
    cfgCalls[j].op = "configure" /\ cfgCalls[j].out.state = "returned"

\* config holds the endpoint and the API key of args
Reflects(config, args) ==
    /\ config.api_key = args.api_key
    /\ config.endpoint = SpinalConfigInit(args, 0).config.endpoint

\* C23: a configure() that returns after an earlier configure() with other
\* arguments returns a new config holding its own arguments, and a
\* get_config() that returns next returns that config.
C23_Reconfigure ==
    \A i, j \in 1..Len(cfgCalls) :
        (/\ i < j
         /\ ConfigureReturned(i) /\ ConfigureReturned(j)
         /\ cfgCalls[i].args # cfgCalls[j].args)
        => /\ cfgCalls[j].out.config # cfgCalls[i].out.config
           /\ Reflects(cfgCalls[j].out.config, cfgCalls[j].args)
           /\ (/\ j < Len(cfgCalls)
               /\ cfgCalls[j + 1].op = "get_config"
               /\ cfgCalls[j + 1].out.state = "returned")
              => cfgCalls[j + 1].out.config = cfgCalls[j].out.config

\* C27: every configure() and get_config() call under way ends, by a return
\* or by an exception: none waits forever for the SDK lock.
C27_ConfigureTerminates == (cfgStack # <<>>) ~> (cfgStack = <<>>)

(* ------------------------------- tag ----------------------------------- *)

\* A context is the baggage it carries (key -> value) and its current span:
\* "none", "recording" (a span of the application) or "tag_context" (the span
\* __enter__ starts).  tgStack is the chain of contexts attached so far:
\* context.attach pushes one and hands out the depth before as the token,
\* context.detach(token) goes back to that depth.

\* the value of sp_obs._internal.SPINAL_NAMESPACE
SPINAL_NAMESPACE == "spinal"

\* The arguments of tag(...): each id given or not, and the extra keywords.
TagArgs ==
    [aggregation_id : {"", "a1"}, org_id : {"", "o1"}, user_id : {"", "u1"},
     workflow_id : {"", "w1"}, kwargs : {{}, {"env"}}]

\* The contexts tag(...) is called in: with or without a recording span, with
\* or without baggage of an earlier tag.
TagContexts ==
    {[baggage |-> b, span |-> s] :
        b \in {EmptyMap, [k \in {SPINAL_NAMESPACE \o "_user_id"} |-> "u0"]},
        s \in {"none", "recording"}}

\* baggage_to_add of _apply_tags
BaggageToAdd(args) ==
    LET ids == {SPINAL_NAMESPACE \o "_aggregation_id" : x \in {args.aggregation_id} \ {""}}
               \cup {SPINAL_NAMESPACE \o "_org_id" : x \in {args.org_id} \ {""}}
               \cup {SPINAL_NAMESPACE \o "_user_id" : x \in {args.user_id} \ {""}}
               \cup {SPINAL_NAMESPACE \o "_workflow_id" : x \in {args.workflow_id} \ {""}}
        tags == {SPINAL_NAMESPACE \o ".tag." \o k : k \in args.kwargs}
    IN  [k \in ids \cup tags |->
            IF k = SPINAL_NAMESPACE \o "_aggregation_id" THEN args.aggregation_id
            ELSE IF k = SPINAL_NAMESPACE \o "_org_id" THEN args.org_id
            ELSE IF k = SPINAL_NAMESPACE \o "_user_id" THEN args.user_id
            ELSE IF k = SPINAL_NAMESPACE \o "_workflow_id" THEN args.workflow_id
            ELSE "v"]

\* context.get_current()
CurrentContext == tgStack[Len(tgStack)]

\* tag(...): __init__ and _apply_tags
TagInit ==
    /\ tgPc = "idle"
    /\ \E args \in TagArgs :
          /\ tgArgs' = args
          /\ tgStack' = Append(tgStack,
                 [CurrentContext EXCEPT
                     !.baggage = Merged(CurrentContext.baggage, BaggageToAdd(args))])
    /\ tgBefore' = CurrentContext.baggage
    /\ tgToken' = Len(tgStack)
    /\ tgScm' = "unset"
    /\ tgPc' = "constructed"
    /\ UNCHANGED <<tgResult, pipeVars, regVars, cfgVars, aioVars, extVars>>

\* not current_span or not current_span.is_recording()
NeedsSpan(span) == span # "recording"

\* tag.__enter__
TagEnter ==
    /\ tgPc = "constructed"
    /\ IF NeedsSpan(CurrentContext.span)
       THEN /\ tgScm' = "set"
            /\ tgStack' = Append(tgStack,
                                 [CurrentContext EXCEPT !.span = "tag_context"])
       ELSE UNCHANGED <<tgScm, tgStack>>
    /\ tgPc' = "entered"
    /\ UNCHANGED <<tgArgs, tgToken, tgBefore, tgResult, pipeVars, regVars, cfgVars,
                   aioVars, extVars>>

\* tag.__exit__: reading self.span_context_manager, which only __enter__
\* assigns, is an AttributeError when it did not; otherwise the span's
\* context is left and the baggage context detached.
TagExit ==
    /\ tgPc = "entered"
    /\ IF tgScm = "unset"
       THEN /\ tgResult' = "AttributeError"
            /\ UNCHANGED tgStack
       ELSE /\ tgResult' = "returned"
            /\ tgStack' = SubSeq(tgStack, 1, IF tgToken # 0 THEN tgToken
                                              ELSE Len(tgStack) - 1)
    /\ tgPc' = "exited"
    /\ UNCHANGED <<tgArgs, tgToken, tgScm, tgBefore, pipeVars, regVars, cfgVars,
                   aioVars, extVars>>

NextTag == TagInit \/ TagEnter \/ TagExit

InitTag ==
    /\ InitProc /\ FilterIdle /\ ExportIdle /\ StreamIdle /\ CodecIdle
    /\ RegistryIdle /\ ConfigIdle /\ AioIdle /\ ExtIdle
    /\ tgStack \in {<<c>> : c \in TagContexts}
    /\ tgArgs = NoTagArgs /\ tgPc = "idle" /\ tgToken = 0 /\ tgScm = "unset"
    /\ tgBefore = EmptyMap /\ tgResult = "none"

SpecTag == InitTag /\ [][NextTag]_vars

\* C24: leaving the with block returns without raising, and the baggage of
\* the current context is then the baggage before the tag was created.
C24_TagRestores ==
    tgPc = "exited" =>
        /\ tgResult = "returned"
        /\ CurrentContext.baggage = tgBefore

(* ----------------------- the aiohttp callbacks ------------------------ *)

\* The callbacks are coroutines without an await: each runs to its end
\* before the event loop runs another.

\* The check of the flag left out.
AlreadyEndedIgnored(flag) == FALSE

\* getattr(trace_config_ctx, "spinal_span_ended", False)
AlreadyEnded(flag) == flag

\* not hasattr(trace_config_ctx, "spinal_span") or spinal_span is None
NoSpinalSpan(span) == span.state \in {"absent", "None"}

\* context.detach(spinal_token); spinal_span.end(); spinal_span_ended = True
EndSpan ==
    /\ aDetaches' = aDetaches + 1
    /\ aEnds' = aEnds + 1
    /\ aFlag' = TRUE

\* the bookkeeping of one callback
Called(callback, exc) ==
    /\ aCalls' = aCalls + 1
    /\ aLast' = [callback |-> callback, ended |-> aFlag, exc |-> exc]

\* spinal_on_request_start: no span for a host that is not supported
OnRequestStart ==
    /\ aSpan.state = "absent"
    /\ \E supported \in BOOLEAN :
          aSpan' = [aSpan EXCEPT !.state = IF supported THEN "recording" ELSE "None",
                                 !.attrs = IF supported THEN {"http.url"} ELSE {}]
    /\ aBuffer' = <<>>
    /\ aFlag' = FALSE
    /\ UNCHANGED <<aEnds, aDetaches, aReader, aCalls, aLast, pipeVars, regVars,
                   cfgVars, tagVars, reqVars, raceVars, sseVars>>

\* the response of on_request_end: its status and its content-length header
\* ("" for a response without the header)
AioResponses == [status : {200, 204, 304}, content_length : {"", "0", "5"}]

\* spinal_on_request_end
OnRequestEnd ==
    /\ aSpan.state # "absent" /\ aCalls < MaxCallbacks
    /\ Called("on_request_end", "none")
    /\ \E response \in AioResponses :
          IF NoSpinalSpan(aSpan) \/ AlreadyEnded(aFlag)
          THEN UNCHANGED <<aSpan, aFlag, aEnds, aDetaches, aReader>>
          ELSE LET noted == aSpan.attrs \cup {"http.status_code", "content-type",
                                "content-encoding",
                                "spinal.http.response.header.x-request-id"}
               IN  /\ aReader' = TRUE
                   /\ IF response.content_length = "0"
                         \/ response.status \in {204, 304}
                      THEN /\ aSpan' = [state |-> "ended", status |-> "OK",
                                        attrs |-> noted,
                                        http_status_code |-> response.status]
                           /\ EndSpan
                      ELSE /\ aSpan' = [aSpan EXCEPT
                                          !.attrs = noted,
                                          !.http_status_code = response.status]
                           /\ UNCHANGED <<aFlag, aEnds, aDetaches>>
    /\ UNCHANGED <<aBuffer, pipeVars, regVars, cfgVars, tagVars, reqVars,
                   raceVars, sseVars>>

\* the chunks of on_response_chunk_received
AioChunks == {"c1", "c2"}

\* spinal_on_response_chunk_received; at_eof is stream_reader.at_eof(). The
\* read of trace_config_ctx.response_stream_reader before on_request_end has
\* assigned it is an AttributeError.
OnResponseChunkReceived ==
    /\ aSpan.state # "absent" /\ aCalls < MaxCallbacks
    /\ \E chunk \in AioChunks, at_eof \in BOOLEAN :
          IF NoSpinalSpan(aSpan) \/ AlreadyEnded(aFlag)
          THEN /\ Called("on_response_chunk_received", "none")
               /\ UNCHANGED <<aSpan, aFlag, aEnds, aDetaches, aBuffer>>
          ELSE IF ~aReader
          THEN /\ Called("on_response_chunk_received", "AttributeError")
               /\ UNCHANGED <<aSpan, aFlag, aEnds, aDetaches, aBuffer>>
          ELSE /\ Called("on_response_chunk_received", "none")
               /\ aBuffer' = Append(aBuffer, chunk)
               /\ IF at_eof
                  THEN /\ aSpan' = [aSpan EXCEPT
                                      !.state = "ended", !.status = "OK",
                                      !.attrs = @ \cup
                                         {"spinal.response.binary_data",
                                          "spinal.response.size"}]
                       /\ EndSpan
                  ELSE UNCHANGED <<aSpan, aFlag, aEnds, aDetaches>>
    /\ UNCHANGED <<aReader, pipeVars, regVars, cfgVars, tagVars, reqVars,
                   raceVars, sseVars>>

\* spinal_on_request_exception; exception is bool(params.exception)
OnRequestException ==
    /\ aSpan.state # "absent" /\ aCalls < MaxCallbacks
    /\ Called("on_request_exception", "none")
    /\ \E exception \in BOOLEAN :
          IF NoSpinalSpan(aSpan) \/ AlreadyEnded(aFlag)
          THEN UNCHANGED <<aSpan, aFlag, aEnds, aDetaches>>
          ELSE /\ aSpan' = [aSpan EXCEPT
                               !.state = "ended",
                               !.status = IF exception THEN "ERROR" ELSE @,
                               !.attrs = IF exception THEN @ \cup {"exception"}
                                         ELSE @]
               /\ EndSpan
    /\ UNCHANGED <<aReader, aBuffer, pipeVars, regVars, cfgVars, tagVars,
                   reqVars, raceVars, sseVars>>

\* The callbacks delivered in any order, as SpecAio has them.
AioRequestStart == OnRequestStart /\ UNCHANGED lifeVars

AioRequestEnd == OnRequestEnd /\ UNCHANGED lifeVars

AioChunkReceived == OnResponseChunkReceived /\ UNCHANGED lifeVars

AioRequestException == OnRequestException /\ UNCHANGED lifeVars

NextAio ==
    AioRequestStart \/ AioRequestEnd \/ AioChunkReceived \/ AioRequestException

SpecAio == Init /\ [][NextAio]_vars

\* C26: after on_request_start, whatever callbacks follow, the span is ended
\* at most once and its token detached at most once, and a callback that
\* arrives after the span has ended changes neither the span nor the chunk
\* buffer.
C26_EndedOnce ==
    /\ [](aEnds <= 1 /\ aDetaches <= 1)
    /\ [][aSpan.state = "ended" =>
            UNCHANGED <<aSpan, aBuffer, aFlag, aEnds, aDetaches, aReader>>]_vars

\* two chunks were buffered, the second ended the span, and a further chunk
\* arrived after that
C26_Witness ==
    /\ aLast.ended /\ aLast.callback = "on_response_chunk_received"
    /\ aSpan.state = "ended" /\ aEnds = 1 /\ aDetaches = 1
    /\ aCalls = MaxCallbacks /\ Len(aBuffer) = 2

(* ------------------ one aiohttp request, start to end ------------------ *)

\* What aiohttp does with one request, and which callbacks it delivers:
\* on_request_start when the request is sent; on_request_exception when it
\* fails before the response arrives, on_request_end when the headers have
\* arrived; on_response_chunk_received when response.read() has drained the
\* body.  No callback comes when reading the body fails, nor when the
\* application releases the response without reading it or reads it through
\* response.content.

\* requests of one session
MaxAioRequests == 2

\* a request is sent, with a trace_config_ctx of its own: on_request_start
LifeStart ==
    /\ aPhase \in {"idle", "closed", "read_failed", "abandoned"}
    /\ aStarts < MaxAioRequests /\ aCalls + 2 <= MaxCallbacks
    /\ \E supported \in BOOLEAN :
          /\ aSpan' = [NoAioSpan EXCEPT
                          !.state = IF supported THEN "recording" ELSE "None",
                          !.attrs = IF supported THEN {"http.url"} ELSE {}]
          /\ aStarts' = IF supported THEN aStarts + 1 ELSE aStarts
    /\ aPhase' = "sent"
    /\ aBuffer' = <<>> /\ aFlag' = FALSE /\ aReader' = FALSE
    /\ UNCHANGED <<aEnds, aDetaches, aCalls, aLast, pipeVars, regVars, cfgVars,
                   tagVars, reqVars, raceVars, sseVars>>

\* the request fails before a response arrives
LifeFails ==
    /\ aPhase = "sent"
    /\ OnRequestException
    /\ aPhase' = "closed"
    /\ UNCHANGED aStarts

\* the status line and the headers of the response arrive
LifeHeaders ==
    /\ aPhase = "sent"
    /\ OnRequestEnd
    /\ aPhase' = "body"
    /\ UNCHANGED aStarts

\* await response.read(): the body is drained, stream_reader.at_eof() holds
LifeRead ==
    /\ aPhase = "body"
    /\ OnResponseChunkReceived
    /\ aFlag'
    /\ aPhase' = "closed"
    /\ UNCHANGED aStarts

\* the connection breaks while the body is read
LifeReadError ==
    /\ aPhase = "body"
    /\ aPhase' = "read_failed"
    /\ UNCHANGED <<aStarts, pipeVars, coreSdkVars, reqVars, raceVars, sseVars>>

\* the application releases the response, or reads it through
\* response.content
LifeAbandon ==
    /\ aPhase = "body"
    /\ aPhase' = "abandoned"
    /\ UNCHANGED <<aStarts, pipeVars, coreSdkVars, reqVars, raceVars, sseVars>>

NextAioLife ==
    LifeStart \/ LifeFails \/ LifeHeaders \/ LifeRead \/ LifeReadError
    \/ LifeAbandon

SpecAioLife == Init /\ [][NextAioLife]_vars

\* aiohttp carries a request on until it is closed, has failed or is left
\* by the application.
FairAioLife == WF_vars(LifeFails \/ LifeHeaders \/ LifeRead \/ LifeReadError \/ LifeAbandon)

FairSpecAioLife == Init /\ [][NextAioLife]_vars /\ FairAioLife

\* C35: every span on_request_start has started is ended in the end, and
\* its token detached, however the request finishes.
C35_SpanEnded ==
    (aEnds < aStarts \/ aDetaches < aStarts)
        ~> (aEnds = aStarts /\ aDetaches = aStarts)

(* --------------------- the instrumented requests ---------------------- *)

\* The content getters wrap_streaming_response has installed on the Response
\* class run for the .content of every response r: each sets
\* spinal.response.binary_data on the span it closes over while that span is
\* recording (content_getter calls the getter installed before it first).
ContentGetters(spans, getters, r) ==
    [n \in 1..Len(spans) |->
        IF spans[n].recording /\ \E g \in 1..Len(getters) : getters[g] = n
        THEN [spans[n] EXCEPT !.data = @ \cup {r}]
        ELSE spans[n]]

\* wrapped_iter_content run to its end for response r: the joined chunks are
\* set on the span of r, and the span is ended (set_attribute on a span that
\* has ended changes nothing)
IterToEnd(spans, r) ==
    [spans EXCEPT ![r] = [data |-> IF spans[r].recording THEN spans[r].data \cup {r}
                                   ELSE spans[r].data,
                          recording |-> FALSE,
                          streaming |-> spans[r].streaming,
                          status |-> spans[r].status]]

\* the arguments of one send: stream=, how the original send ends, and the
\* body of the prepared request (None, bytes, or the str of form data)
SendInputs ==
    [streaming : BOOLEAN, original : {"returns", "raises"},
     body : {"none", "bytes", "str"}]

\* memoryview(request.body) of a str is a TypeError
BodyCaptureFails(body) == body = "str"

\* the span wrapped_send starts
NewSpan(in) ==
    [streaming |-> in.streaming, recording |-> TRUE, data |-> {}, status |-> "UNSET"]

\* except Exception: record_exception, ERROR, span.end(), raise
Failed(span) == [span EXCEPT !.status = "ERROR", !.recording = FALSE]

\* wrapped_send. A send without stream=True reads response.content inside
\* the original send.
WrappedSend ==
    /\ Len(rqSpans) < MaxRequests
    /\ \E in \in SendInputs :
          LET r == Len(rqSpans) + 1
              started == Append(rqSpans, NewSpan(in))
              sent == IF in.streaming THEN started
                      ELSE ContentGetters(started, rqGetters, r)
          IN  IF in.original = "raises"
              THEN /\ rqSpans' = [started EXCEPT ![r] = Failed(@)]
                   /\ rqRead' = Append(rqRead, "none")
                   /\ rqLast' = [request |-> r, original |-> "raises",
                                 outcome |-> "raises"]
                   /\ UNCHANGED rqGetters
              ELSE IF in.body # "none" /\ BodyCaptureFails(in.body)
              THEN /\ rqSpans' = [sent EXCEPT ![r] = Failed(@)]
                   /\ rqRead' = Append(rqRead, "none")
                   /\ rqLast' = [request |-> r, original |-> "returns",
                                 outcome |-> "TypeError"]
                   /\ UNCHANGED rqGetters
              ELSE IF in.streaming
              THEN /\ rqSpans' = [sent EXCEPT ![r] = [@ EXCEPT !.status = "OK"]]
                   /\ rqGetters' = Append(rqGetters, r)
                   /\ rqRead' = Append(rqRead, "unread")
                   /\ rqLast' = [request |-> r, original |-> "returns",
                                 outcome |-> "returns"]
              ELSE /\ rqSpans' = [sent EXCEPT ![r] =
                                     [@ EXCEPT !.data = @ \cup {r}, !.status = "OK",
                                               !.recording = FALSE]]
                   /\ rqRead' = Append(rqRead, "read")
                   /\ rqLast' = [request |-> r, original |-> "returns",
                                 outcome |-> "returns"]
                   /\ UNCHANGED rqGetters
    /\ UNCHANGED <<pipeVars, coreSdkVars, lifeVars, raceVars, sseVars>>

\* the responses wrapped_send has returned to the application
Responses == {r \in 1..Len(rqRead) : rqRead[r] # "none"}

\* for chunk in response.iter_content(): ... on a streaming response, to the
\* end
IterContent ==
    /\ \E r \in Responses :
          /\ rqRead[r] = "unread"
          /\ \E g \in 1..Len(rqGetters) : rqGetters[g] = r
          /\ rqSpans' = IterToEnd(rqSpans, r)
          /\ rqRead' = [rqRead EXCEPT ![r] = "read"]
    /\ UNCHANGED <<rqGetters, rqLast, pipeVars, coreSdkVars, lifeVars, raceVars,
                   sseVars>>

\* response.raw.read() on a streaming response until it returns b"":
\* CapturingRaw.read sets the captured bytes on the span of the response
RawRead ==
    /\ \E r \in Responses :
          /\ rqRead[r] = "unread"
          /\ \E g \in 1..Len(rqGetters) : rqGetters[g] = r
          /\ rqSpans' = [rqSpans EXCEPT ![r].data =
                           IF rqSpans[r].recording THEN @ \cup {r} ELSE @]
          /\ rqRead' = [rqRead EXCEPT ![r] = "read"]
    /\ UNCHANGED <<rqGetters, rqLast, pipeVars, coreSdkVars, lifeVars, raceVars,
                   sseVars>>

\* response.content read by the application: Response.content consumes
\* iter_content when the body was not read yet (the wrapped one, for a
\* response wrap_streaming_response has wrapped), and the getters run.
ReadContent ==
    /\ \E r \in Responses :
          LET wrapped == \E g \in 1..Len(rqGetters) : rqGetters[g] = r
              consumed == IF rqRead[r] = "unread" /\ wrapped
                          THEN IterToEnd(rqSpans, r) ELSE rqSpans
          IN  /\ rqSpans' = ContentGetters(consumed, rqGetters, r)
              /\ rqRead' = [rqRead EXCEPT ![r] = "read"]
    /\ UNCHANGED <<rqGetters, rqLast, pipeVars, coreSdkVars, lifeVars, raceVars,
                   sseVars>>

NextRequests == WrappedSend \/ IterContent \/ RawRead \/ ReadContent

SpecRequests == Init /\ [][NextRequests]_vars

\* C33: the span of a request holds response bytes of that request only:
\* no read of the body of one response sets spinal.response.binary_data on
\* the span of another request.
C33_OwnBytesOnly ==
    \A n \in 1..Len(rqSpans) : rqSpans[n].data \subseteq {n}

\* C34: wrapped_send returns whenever the original send returned, and raises
\* only the exception the original send raised.
C34_Transparent ==
    rqLast.request # 0 =>
        /\ rqLast.original = "returns" => rqLast.outcome = "returns"
        /\ rqLast.original = "raises" => rqLast.outcome = "raises"

(* ------------- get_provider called by several threads ----------------- *)

\* get_provider takes no lock. A thread can be suspended between any two of
\* its steps: the test of the cache, the construction of the provider, the
\* store into _provider_cache and the read of the return statement.
\*   rcCache    _provider_cache: the instance stored under each cached name
\*   rcThreads  for each thread: where it is in get_provider (pc), the
\*              name it looks up, the instance it has constructed (local),
\*              what its last call returned (result), and whether that call
\*              began when every first-use call for the name had returned
\*              (late)
\*   rcMade     how many provider objects have been constructed

\* the names the threads look up: two registered keys and one that is none
RaceNames == {"openai", "anthropic", "gemini"}

\* A test of the cache that never finds the name.
MissingAlways(cache, name) == TRUE

\* provider_name not in _provider_cache
Missing(cache, name) == name \notin DOMAIN cache

\* _provider_cache[provider_name] = instance
Stored(cache, name, instance) ==
    [k \in DOMAIN cache \cup {name} |-> IF k = name THEN instance ELSE cache[k]]

\* Every first-use call for the name has returned: the name is cached and no
\* thread is between the failed test of the cache and its store.
Settled(name) ==
    /\ name \in DOMAIN rcCache
    /\ \A t \in Threads :
          rcThreads[t].name = name => rcThreads[t].pc \notin {"make", "store"}

RECURSIVE CallsOfFirst(_)

\* the calls the threads 1..n have made
CallsOfFirst(n) == IF n = 0 THEN 0 ELSE rcThreads[n].calls + CallsOfFirst(n - 1)

\* a thread calls get_provider(name)
RaceCall(t) ==
    /\ rcThreads[t].pc \in {"idle", "done", "raised"}
    /\ CallsOfFirst(MaxThreads) < MaxLookups
    /\ \E name \in RaceNames :
          rcThreads' = [rcThreads EXCEPT ![t] =
              [pc |-> "check", name |-> name, local |-> NoInstance,
               result |-> NoInstance, late |-> Settled(name),
               calls |-> rcThreads[t].calls + 1]]
    /\ UNCHANGED <<rcCache, rcMade, pipeVars, coreSdkVars, lifeVars, reqVars,
                   sseVars>>

\* if provider_name not in _provider_cache: ... else: raise ValueError
RaceCheck(t) ==
    /\ rcThreads[t].pc = "check"
    /\ rcThreads' = [rcThreads EXCEPT ![t].pc =
          IF ~Missing(rcCache, rcThreads[t].name) THEN "load"
          ELSE IF rcThreads[t].name \in ProviderKeys THEN "make"
          ELSE "raised"]
    /\ UNCHANGED <<rcCache, rcMade, pipeVars, coreSdkVars, lifeVars, reqVars,
                   sseVars>>

\* OpenAIProvider(), AnthropicProvider(), ...: a new object of the class of
\* the branch
RaceConstruct(t) ==
    /\ rcThreads[t].pc = "make"
    /\ rcMade' = rcMade + 1
    /\ rcThreads' = [rcThreads EXCEPT
          ![t].local = [type |-> rcThreads[t].name, id |-> rcMade + 1],
          ![t].pc = "store"]
    /\ UNCHANGED <<rcCache, pipeVars, coreSdkVars, lifeVars, reqVars, sseVars>>

\* _provider_cache[provider_name] = the object just made
RaceStore(t) ==
    /\ rcThreads[t].pc = "store"
    /\ rcCache' = Stored(rcCache, rcThreads[t].name, rcThreads[t].local)
    /\ rcThreads' = [rcThreads EXCEPT ![t].pc = "load"]
    /\ UNCHANGED <<rcMade, pipeVars, coreSdkVars, lifeVars, reqVars, sseVars>>

\* return _provider_cache[provider_name]
RaceReturn(t) ==
    /\ rcThreads[t].pc = "load"
    /\ rcThreads' = [rcThreads EXCEPT
          ![t].result = rcCache[rcThreads[t].name],
          ![t].pc = "done"]
    /\ UNCHANGED <<rcCache, rcMade, pipeVars, coreSdkVars, lifeVars, reqVars,
                   sseVars>>

NextRace ==
    \E t \in Threads :
        \/ RaceCall(t) \/ RaceCheck(t) \/ RaceConstruct(t) \/ RaceStore(t)
        \/ RaceReturn(t)

SpecRace == Init /\ [][NextRace]_vars

\* C39: whatever the interleaving, a call of get_provider for a registered
\* key returns a provider of the class of the key, and a call that began
\* when every first-use call for the key had returned has the instance the
\* cache holds now, so all such calls have one and the same instance.
C39_RaceIdempotent ==
    \A t \in Threads :
        rcThreads[t].pc = "done" =>
            /\ rcThreads[t].result.type = rcThreads[t].name
            /\ rcThreads[t].late =>
                  /\ rcThreads[t].name \in DOMAIN rcCache
                  /\ rcThreads[t].result = rcCache[rcThreads[t].name]

\* two threads raced on "openai" and both constructed a provider; the second
\* store won, and a later lookup has returned that instance
C39_Witness ==
    /\ rcMade = 2 /\ DOMAIN rcCache = {"openai"}
    /\ rcCache["openai"].id = 2
    /\ \E t \in Threads :
          /\ rcThreads[t].pc = "done" /\ rcThreads[t].late
          /\ rcThreads[t].name = "openai"
          /\ rcThreads[t].result = rcCache["openai"]
    /\ \A t \in Threads : rcThreads[t].calls >= 1 /\ rcThreads[t].name = "openai"
    /\ CallsOfFirst(MaxThreads) = 3

(* ------------------- server-sent events (OpenAI) ---------------------- *)

\* An event stream is a sequence of lines. A line is "event: <name>",
\* "data: <payload>" or empty. The payloads:
\*   "completed"  {"response": {"id": "r"}}
\*   "item"       {"item": {"id": "i"}}
\*   "raw"        text that is no JSON, such as [DONE]
\* sseIn is the stream handed to handle_event_stream; sseOut holds the
\* events the loop reassembled and the response attributes returned.
SseLines ==
    {[kind |-> "event", v |-> n] :
        n \in {"response.completed", "response.output_item.done"}}
    \cup {[kind |-> "data", v |-> p] : p \in {"completed", "item", "raw"}}
    \cup {[kind |-> "blank", v |-> ""]}

SseStreams == UNION {[1..n -> SseLines] : n \in 0..MaxLines}

\* current_event = {}
NoEvent == [hasEvent |-> FALSE, event |-> "", data |-> <<>>]

\* bool(current_event)
NonEmpty(current_event) == current_event.hasEvent \/ current_event.data # <<>>

\* try: orjson.loads(data_str)  except: data_str
JsonOrText(data_str) ==
    IF data_str = "raw" THEN [t |-> "str", v |-> data_str]
    ELSE [t |-> "dict", v |-> data_str]

\* current_event["data"] = ...: the key holds the value of this line alone
DataAssigned(current_event, data_str) ==
    [current_event EXCEPT !.data = <<JsonOrText(data_str)>>]

RECURSIVE StripLeft(_)

\* event_stream.strip().split("\n"): empty lines at either end are gone
StripLeft(lines) ==
    IF lines # <<>> /\ Head(lines).kind = "blank" THEN StripLeft(Tail(lines))
    ELSE lines

RECURSIVE StripRight(_)

StripRight(lines) ==
    IF lines # <<>> /\ lines[Len(lines)].kind = "blank"
    THEN StripRight(SubSeq(lines, 1, Len(lines) - 1))
    ELSE lines

RECURSIVE ParseLines(_, _, _)

\* the loop over the lines, and the append after it
ParseLines(lines, events, current_event) ==
    IF lines = <<>>
    THEN IF NonEmpty(current_event) THEN Append(events, current_event) ELSE events
    ELSE LET line == Head(lines)
         IN  IF line.kind = "event"
             THEN ParseLines(Tail(lines),
                      IF NonEmpty(current_event) THEN Append(events, current_event)
                      ELSE events,
                      [hasEvent |-> TRUE, event |-> line.v, data |-> <<>>])
             ELSE IF line.kind = "data"
                  THEN ParseLines(Tail(lines), events,
                                  DataAssigned(current_event, line.v))
             ELSE IF NonEmpty(current_event)
                  THEN ParseLines(Tail(lines), Append(events, current_event), NoEvent)
             ELSE ParseLines(Tail(lines), events, current_event)

\* event.get("event") == name and isinstance(event.get("data"), dict)
IsEventWithDict(event, name) ==
    /\ event.hasEvent /\ event.event = name
    /\ event.data # <<>> /\ event.data[1].t = "dict"

\* The response attributes: the "response" of the last response.completed
\* event, or else the items of the response.output_item.done events.
ResponseOf(events) ==
    LET completed == {n \in 1..Len(events) :
                        IsEventWithDict(events[n], "response.completed")}
        done == SelectSeq(events,
                    LAMBDA e : /\ IsEventWithDict(e, "response.output_item.done")
                               /\ e.data[1].v = "item")
    IN  IF completed # {}
        THEN LET last == CHOOSE n \in completed : \A o \in completed : o <= n
             IN  IF events[last].data[1].v = "completed"
                 THEN [kind |-> "response", v |-> <<"r">>]
                 ELSE [kind |-> "response", v |-> <<>>]
        ELSE [kind |-> "output", v |-> [n \in 1..Len(done) |-> "i"]]

\* OpenAIProvider.handle_event_stream(event_stream)
HandleEventStream ==
    /\ ~sseOut.parsed
    /\ \E event_stream \in SseStreams :
          LET events == ParseLines(StripRight(StripLeft(event_stream)), <<>>, NoEvent)
          IN  /\ sseIn' = event_stream
              /\ sseOut' = [parsed |-> TRUE, events |-> events,
                            response |-> ResponseOf(events)]
    /\ UNCHANGED <<pipeVars, coreSdkVars, lifeVars, reqVars, raceVars>>

SpecSse == Init /\ [][HandleEventStream]_vars

\* the data: lines of a stream
DataLines(lines) == SelectSeq(lines, LAMBDA line : line.kind = "data")

RECURSIVE DataHeld(_)

\* how many values the events hold as data, all together
DataHeld(events) ==
    IF events = <<>> THEN 0 ELSE Len(Head(events).data) + DataHeld(Tail(events))

\* C40: a record keeps the data of every data: line it has, as JSON where
\* the line is JSON and as text where it is not: the events hold as many
\* values as the stream has data: lines, and no data: line is lost.
C40_AllDataKept ==
    sseOut.parsed =>
        /\ DataHeld(sseOut.events) = Len(DataLines(sseIn))
        /\ \A n \in 1..Len(sseOut.events) :
              \A i \in 1..Len(sseOut.events[n].data) :
                 sseOut.events[n].data[i].t = "str"
                    <=> sseOut.events[n].data[i].v = "raw"

(* ------------------- claims about the scrubber, depth ------------------ *)

\* C31: in the map scrub_attributes returns, no sensitive key keeps its
\* value, at whatever depth it sits, maps inside lists inside lists included.
C31_NoSensitiveSurvives ==
    scState = "scrubbed" => ~Leaks(scPatterns, Map(scOutput))

(* --------------------- claims about the HTTP client -------------------- *)

\* C32: the client of the exporter is not closed before shutdown() of the
\* processor is called, and when that call has returned it has been closed
\* exactly once.
C32_ClosedOnce ==
    /\ callerOp # "shutdown" => closes = 0
    /\ (callerOp = "shutdown" /\ callerPc = "done") => closes = 1

(* ------------- claims about what the decoding adds ------------------- *)

\* C38: for a response whose content-type is none of audio/*,
\* text/event-stream and application/json the decoding adds nothing derived
\* from the body, for any provider: every attribute of the result is one of
\* the attributes the span had before (the raw buffer apart) or one of the
\* provider's parsed header attributes.
C38_NothingSynthesized ==
    (/\ pOut.exc = "none" /\ pOut.result # "none"
     /\ pSpan.response # NoBody
     /\ pSpan.contentType = "text/plain")
    => LET original ==
               Popped(decode_request_binary_data(SpanAttributes(pSpan)).value,
                      RESPONSE_KEY)
           headers ==
               parse_response_headers(pSpan.provider,
                   [k \in {x \in DOMAIN original : IsHeaderKey(x)} |-> original[k]])
           allowed == scrub_attributes(SENSITIVE_PATTERNS, Merged(original, headers))
       IN  \A k \in DOMAIN pOut.payload :
              k \in DOMAIN allowed /\ pOut.payload[k] = allowed[k]

====
